---- MODULE Spec2Model ----
(***************************************************************************)
(* Model of the stETH/ETH rebalancing bot: StrategyRunner (the control     *)
(* loop, the decision engine and the withdrawal lifecycle tracker),        *)
(* StorageService (the persisted strategy state) and the parts of          *)
(* LidoService the runner calls.                                           *)
(*                                                                         *)
(* Units.  Time is in milliseconds, as Date.now() returns it; an ISO-8601  *)
(* timestamp written by toISOString() and read back by Date.parse() is the *)
(* same millisecond count, so timestamps are kept as that integer.         *)
(* Percentages are in tenths of a percent and the price ratio in           *)
(* thousandths (ratio 0.990 is 990, thresholdPct 0.4 is 4), so that        *)
(* discountPct = (1 - ratio) * 100 becomes 1000 - ratio.  Amounts are in   *)
(* units of 10^15 wei (parseEther('0.01') is 10).  The ratios drawn never  *)
(* sit exactly on a threshold, where the floating-point product of the     *)
(* source and the exact arithmetic used here could differ.  A negative     *)
(* thresholdPct is a configuration loadConfig accepts; with it both        *)
(* percentages can exceed the threshold in one tick.                       *)
(*                                                                         *)
(* A ledger record keeps requestId, amountSteth, status, txHash, createdAt  *)
(* and claimedAt; a record without claimedAt has claimedAt = NoTime.  The  *)
(* transaction hash is kept as what it is the hash of, the call and its    *)
(* amount.  The lastTick field of the state, which nothing reads, is left  *)
(* out.                                                                    *)
(*                                                                         *)
(* Specifications.  Spec and SpecTracker run the ticks from no state file  *)
(* with the default guards; SpecGuards varies the safety buffer, the       *)
(* minimum trade sizes and the balances; SpecStore varies what the state   *)
(* file holds at the start; SpecLoop follows the arguments of the sleeps   *)
(* of start() (SleepTimed in place of Sleep); SpecLive and SpecTicking add *)
(* the scheduling assumptions the liveness properties need.                *)
(***************************************************************************)
EXTENDS Integers, Sequences, FiniteSets, TLC

VARIABLES
    config,          \* BotConfig fields the runner reads
    pool,            \* the price pool: the addresses PriceService holds and what the
                     \* pool contract answers
    chain,           \* the balances the chain can report for the wallet
    api,             \* the API server: data/withdrawals.json and a status request in flight
    loop,            \* start locals: backoffMs, and the last sleep as history
    now,             \* wall clock, ms
    file,            \* content of data/strategy-state.json, or NoFile
    gw,              \* what the withdrawal queue answers for each request id
    nextRequestId,   \* the id the withdrawal queue assigns next
    pc,              \* position of StrategyRunner.start / runOnce
    tickOk,          \* outcome of the last finished runOnce (pc = "sleep")
    priceRatio,      \* runOnce local
    ethBalance,      \* runOnce local
    stethBalance,    \* runOnce local
    updatedState,    \* runOnce local: the snapshot loaded and updated at tick start
    startState,      \* history: the persisted state when the tick started
    readyIds,        \* claimReadyWithdrawals local: ids of the claim in flight
    decision,        \* what decideAction returned in this tick, with its clock
    tickTx,          \* history: the stake / withdrawal-request call made in this tick
    claimTxs,        \* history: argument of each claimWithdrawals call of this tick
    pass,            \* history: the tracker pass of this tick
    prevPass,        \* history: the tracker pass of the previous tick
    gwSame,          \* history: gw unchanged since the previous tracker pass
    dash,            \* the dashboard: the inputs of the value signal and its results
    other            \* a second runner instance on the same state file: where it is
                     \* between its load and its save, and its copy of the state

vars == <<config, pool, chain, api, dash, other, loop, now, file, gw, nextRequestId, pc, tickOk, priceRatio, ethBalance,
          stethBalance, updatedState, startState, readyIds, decision, tickTx,
          claimTxs, pass, prevPass, gwSame>>

----------------------------------------------------------------------------
(* Bounds of the model *)

MaxSteps == 2         \* the clock runs from 0 to MaxSteps * Step
MaxId == 2            \* request ids the withdrawal queue hands out
MaxCount == 2         \* cap of the consecutive counters
MaxFail == 8          \* failed ticks in a row that are counted

Step == 60 * 60 * 1000     \* clock granularity: one hour, in ms

Ids == 1..MaxId
Times == {k * Step : k \in 0..MaxSteps}

(* Inputs *)
Ratios == {990, 1000, 1010}
(* slot0().sqrtPriceX96 answers that yield these ratios: 0.995, 1 and 1.005 *)
SqrtPrices == {995, 1000, 1005}
EthBalances == {15, 40}
StethBalances == {5, 30}
Balances == [eth |-> EthBalances, steth |-> StethBalances]
(* with a spendable amount below the minimum trade and an empty staked balance *)
GuardBalances == [eth |-> {15, 25, 40}, steth |-> {0, 5, 30}]
Configs ==
    {[thresholdPct |-> t, cooldownMinutes |-> c[1], confirmationChecks |-> 2,
      minHoldHours |-> c[2], safetyBufferEth |-> 20, minTradeEth |-> 10,
      minTradeSteth |-> 10, loopSeconds |-> 60] : t \in {4, -5}, c \in {<<0, 2>>, <<60, 1>>}}
TrackerConfig ==
    [thresholdPct |-> 4, cooldownMinutes |-> 0, confirmationChecks |-> 2,
     minHoldHours |-> 1, safetyBufferEth |-> 20, minTradeEth |-> 10,
     minTradeSteth |-> 10, loopSeconds |-> 60]
(* the safety buffer and the minimum trade sizes, each at its default or at zero *)
(* the tick interval at its default and below the floor of one second *)
LoopConfigs == {[TrackerConfig EXCEPT !.loopSeconds = l] : l \in {0, 60}}
GuardConfigs ==
    {[TrackerConfig EXCEPT !.safetyBufferEth = b, !.minTradeEth = e,
                           !.minTradeSteth = s] :
        b \in {0, 20}, e \in {0, 10}, s \in {0, 10}}

(* stakeAll, withdrawAll: parseEther of the configured strings *)
safetyBufferEth == config.safetyBufferEth
minTradeEth == config.minTradeEth
minTradeSteth == config.minTradeSteth

Max(a, b) == IF a >= b THEN a ELSE b
Min(a, b) == IF a <= b THEN a ELSE b

(* StrategyRunner constructor and start *)
loopMs == Max(1000, config.loopSeconds * 1000)
maxBackoffMs == 5 * 60 * 1000
cooldownMs == Max(0, config.cooldownMinutes * 60 * 1000)
minHoldMs == Max(0, config.minHoldHours * 60 * 60 * 1000)

----------------------------------------------------------------------------
(* The dashboard's value signal (value-signal.service.ts).  A number is kept as an
   exact fraction <<numerator, denominator>> in lowest terms with a positive
   denominator, so that the products stay small. *)

Abs(n) == IF n < 0 THEN -n ELSE n
RECURSIVE GCD(_, _)
GCD(a, b) == IF b = 0 THEN a ELSE GCD(b, a % b)
Rat(n, d) == LET g == GCD(Abs(n), d) IN <<n \div g, d \div g>>
Whole(n) == Rat(n, 1)
RAdd(a, b) == Rat(a[1] * b[2] + b[1] * a[2], a[2] * b[2])
RSub(a, b) == Rat(a[1] * b[2] - b[1] * a[2], a[2] * b[2])
RMul(a, b) == Rat(a[1] * b[1], a[2] * b[2])
(* a / b for a positive b *)
RDiv(a, b) == Rat(a[1] * b[2], a[2] * b[1])
REq(a, b) == a[1] * b[2] = b[1] * a[2]

computeWaitingTimeCostPct(aprPct, waitingTimeDays) ==
    RMul(aprPct, RDiv(waitingTimeDays, Whole(365)))

(* computeHurdlePct that charges the waiting time whatever the switch says *)
computeHurdlePctAlways(aprPct, waitingTimeDays, riskPremiumPct, includeWaitingTimeCost) ==
    LET waitingCost == computeWaitingTimeCostPct(aprPct, waitingTimeDays)
    IN RAdd(waitingCost, riskPremiumPct)

computeHurdlePct(aprPct, waitingTimeDays, riskPremiumPct, includeWaitingTimeCost) ==
    LET waitingCost == IF includeWaitingTimeCost
                       THEN computeWaitingTimeCostPct(aprPct, waitingTimeDays)
                       ELSE Whole(0)
    IN RAdd(waitingCost, riskPremiumPct)

computeValueSignal(discountPct, hurdlePct) == RSub(discountPct, hurdlePct)

(* The inputs: APRs of 0, 3.65 and 4 percent, waits of 0, 10 and 14 days, risk
   premiums of -0.5, 0 and 2 percent, discounts of -0.5, 0.7 and 1.2 percent *)
AprPcts == {Whole(0), Rat(365, 100), Whole(4)}
WaitingTimeDays == {Whole(0), Whole(10), Whole(14)}
RiskPremiumPcts == {Rat(-5, 10), Whole(0), Whole(2)}
DiscountPcts == {Rat(-5, 10), Rat(7, 10), Rat(12, 10)}
NoDash == [step |-> "off"]
Queries ==
    [step : {"query"}, aprPct : AprPcts, waitingTimeDays : WaitingTimeDays,
     riskPremiumPct : RiskPremiumPcts, includeWaitingTimeCost : BOOLEAN,
     discountPct : DiscountPcts, hurdlePct : {Whole(0)}, valueSignal : {Whole(0)}]

----------------------------------------------------------------------------
(* PriceService *)

(* An address is kept as the account it names and whether it is written in the
   mixed-case checksum form or in lower case *)
Address(id, checksum) == [id |-> id, checksum |-> checksum]
toLowerCase(address) == [address EXCEPT !.checksum = FALSE]
STETH == "steth"
WETH == "weth"
(* index.ts, line 11: the constant is written in checksum form *)
WETH_ADDRESS == Address(WETH, TRUE)

(* The fixed-point scales, brought down so that the products stay within the
   integers of the model checker: 10^18 becomes 10^3 (a ratio in thousandths) and
   2^96 becomes 10^3 (sqrtPriceX96 in thousandths), so 2^192 becomes 10^6 *)
Q192 == 1000 * 1000
ONE_X18 == 1000

priceFromSqrtX96X18(sqrtPriceX96) ==
    LET squared == sqrtPriceX96 * sqrtPriceX96
    IN (squared * ONE_X18) \div Q192

PriceError == [threw |-> TRUE]
Returned(ratio) == [threw |-> FALSE, ratio |-> ratio]

invertRatioX18(ratioX18) ==
    IF ratioX18 = 0 THEN PriceError
    ELSE Returned((ONE_X18 * ONE_X18) \div ratioX18)

(* Number(valueX18) / 1e18: the ratio, in the model's thousandths *)
toRatio(valueX18) == valueX18

(* getStethEthPriceRatio with the two orders of the pair taken for each other *)
getStethEthPriceRatioSwapped(sqrtPriceX96) ==
    LET stethAddress == toLowerCase(pool.stethAddress)
        wethAddress == toLowerCase(pool.wethAddress)
        normalized0 == toLowerCase(pool.token0)
        normalized1 == toLowerCase(pool.token1)
        priceToken1PerToken0X18 == priceFromSqrtX96X18(sqrtPriceX96)
    IN IF normalized0 = wethAddress /\ normalized1 = stethAddress
       THEN Returned(toRatio(priceToken1PerToken0X18))
       ELSE IF normalized0 = stethAddress /\ normalized1 = wethAddress
       THEN LET inverted == invertRatioX18(priceToken1PerToken0X18)
            IN IF inverted = PriceError THEN PriceError
               ELSE Returned(toRatio(inverted.ratio))
       ELSE PriceError

(* getStethEthPriceRatio, for the sqrtPriceX96 that slot0() answered: the price of
   token1 in token0, taken as it is when token0 is stETH and token1 WETH, inverted
   when it is the other way round; any other pair of tokens throws *)
getStethEthPriceRatio(sqrtPriceX96) ==
    LET stethAddress == toLowerCase(pool.stethAddress)
        wethAddress == toLowerCase(pool.wethAddress)
        normalized0 == toLowerCase(pool.token0)
        normalized1 == toLowerCase(pool.token1)
        priceToken1PerToken0X18 == priceFromSqrtX96X18(sqrtPriceX96)
    IN IF normalized0 = stethAddress /\ normalized1 = wethAddress
       THEN Returned(toRatio(priceToken1PerToken0X18))
       ELSE IF normalized0 = wethAddress /\ normalized1 = stethAddress
       THEN LET inverted == invertRatioX18(priceToken1PerToken0X18)
            IN IF inverted = PriceError THEN PriceError
               ELSE Returned(toRatio(inverted.ratio))
       ELSE PriceError

(* The pool of the deployment: stETH is token0 and WETH token1 *)
Pool ==
    [stethAddress |-> Address(STETH, FALSE), wethAddress |-> WETH_ADDRESS,
     token0 |-> Address(STETH, TRUE), token1 |-> Address(WETH, TRUE),
     slot0 |-> SqrtPrices]

(* Any pool a configured address can point at: its tokens are stETH, WETH or
   another token, in checksum form or in lower case; the price it reports is 0
   (a pool that was never initialised), 0.990 or 1 *)
Tokens == {Address(id, checksum) : id \in {STETH, WETH, "other"}, checksum \in BOOLEAN}
Pools ==
    {[stethAddress |-> Address(STETH, c), wethAddress |-> WETH_ADDRESS,
      token0 |-> t0, token1 |-> t1, slot0 |-> {0, 995, 1000}] :
        c \in BOOLEAN, t0 \in Tokens, t1 \in Tokens}

----------------------------------------------------------------------------
(* StorageService *)

NoFile == [absent |-> TRUE]
NoAction == [type |-> "none", timestamp |-> 0]
DefaultState ==
    [lastAction |-> NoAction, consecutive |-> [discount |-> 0, premium |-> 0],
     requests |-> <<>>]

(* What the state file can hold when the runner starts, besides nothing and a state
   written by saveState: an empty file, white space, a truncated JSON text, the
   empty object and the JSON null *)
RawTexts == {"", " ", "{", "{}", "null"}
StartFiles == {NoFile} \cup {[raw |-> r] : r \in RawTexts}
IsText(f) == "raw" \in DOMAIN f
trim(raw) == IF raw = " " THEN "" ELSE raw

(* loadState throws: JSON.parse rejects the text (SyntaxError), or the parsed value
   is null and the read of parsed.consecutive fails (TypeError) *)
LoadError == [error |-> TRUE]

(* loadState with the parse guarded, as the store's load is described: whatever
   cannot be read is the default state *)
loadStateGuarded(f) ==
    IF f = NoFile \/ IsText(f) THEN DefaultState ELSE f

(* loadState: no file and a blank file give the default state; the text is parsed
   and the missing consecutive and requests of the parsed object are filled in; a
   state written by saveState is read back as it was written *)
loadState(f) ==
    IF f = NoFile THEN DefaultState
    ELSE IF IsText(f)
         THEN IF trim(f.raw) = "" THEN DefaultState
              ELSE IF f.raw = "{}" THEN DefaultState
              ELSE LoadError
         ELSE f

saveState(state) == state

RECURSIVE AppendAll(_, _)
AppendAll(seq, more) ==
    IF more = <<>> THEN seq ELSE AppendAll(Append(seq, Head(more)), Tail(more))

(* WithdrawalRequestRecord.claimedAt of a record that has none *)
NoTime == -1

(* addRequests: nothing is written for an empty list; nowIso is the clock read
   at line 69 *)
addRequests(f, requests, nowIso) ==
    IF Len(requests) = 0 THEN f
    ELSE LET state == loadState(f)
             new == [i \in 1..Len(requests) |->
                        [requestId |-> requests[i].requestId,
                         amountSteth |-> requests[i].amountSteth,
                         status |-> "pending",
                         txHash |-> requests[i].txHash,
                         createdAt |-> nowIso,
                         claimedAt |-> NoTime]]
         IN saveState([state EXCEPT !.requests = AppendAll(state.requests, new)])

(* markRequests without the test of the requestId: every entry takes the status *)
markRequestsAll(f, requestIds, status) ==
    IF requestIds = {} THEN f
    ELSE LET state == loadState(f)
         IN saveState([state EXCEPT !.requests =
                [i \in 1..Len(state.requests) |->
                    [state.requests[i] EXCEPT
                        !.status = status,
                        !.claimedAt = IF status = "claimed" THEN now ELSE @]]])

(* markRequests that takes the ready entries it does not mark back to pending *)
markRequestsResets(f, requestIds, status) ==
    IF requestIds = {} THEN f
    ELSE LET state == loadState(f)
         IN saveState([state EXCEPT !.requests =
                [i \in 1..Len(state.requests) |->
                    IF state.requests[i].requestId \in requestIds
                    THEN [state.requests[i] EXCEPT
                            !.status = status,
                            !.claimedAt = IF status = "claimed" THEN now ELSE @]
                    ELSE IF state.requests[i].status = "ready"
                    THEN [state.requests[i] EXCEPT !.status = "pending"]
                    ELSE state.requests[i]]])

(* markRequests that keeps only the entries it marks *)
markRequestsOnly(f, requestIds, status) ==
    IF requestIds = {} THEN f
    ELSE LET state == loadState(f)
             marked == SelectSeq(state.requests,
                                 LAMBDA entry : entry.requestId \in requestIds)
         IN saveState([state EXCEPT !.requests =
                [i \in 1..Len(marked) |->
                    [marked[i] EXCEPT
                        !.status = status,
                        !.claimedAt = IF status = "claimed" THEN now ELSE @]]])

(* markRequests: every entry whose requestId is in requestIds takes the status,
   and with the status claimed the clock read at line 89 as its claimedAt *)
markRequests(f, requestIds, status) ==
    IF requestIds = {} THEN f
    ELSE LET state == loadState(f)
         IN saveState([state EXCEPT !.requests =
                [i \in 1..Len(state.requests) |->
                    IF state.requests[i].requestId \in requestIds
                    THEN [state.requests[i] EXCEPT
                            !.status = status,
                            !.claimedAt = IF status = "claimed" THEN now ELSE @]
                    ELSE state.requests[i]]])

setLastAction(f, type, timestamp) ==
    LET state == loadState(f)
    IN saveState([state EXCEPT !.lastAction = [type |-> type, timestamp |-> timestamp]])

----------------------------------------------------------------------------
(* Decision engine *)

discountPctOf(ratio) == 1000 - ratio
premiumPctOf(ratio) == ratio - 1000

(* updateConsecutive with the reset of a counter below the threshold left out *)
updateConsecutiveNoReset(state, discountPct, premiumPct) ==
    LET threshold == config.thresholdPct
        discount == IF discountPct > threshold THEN state.consecutive.discount + 1
                    ELSE state.consecutive.discount
        premium == IF premiumPct > threshold THEN state.consecutive.premium + 1
                   ELSE state.consecutive.premium
    IN [state EXCEPT !.consecutive = [discount |-> discount, premium |-> premium]]

updateConsecutive(state, discountPct, premiumPct) ==
    LET threshold == config.thresholdPct
        discount == IF discountPct > threshold THEN state.consecutive.discount + 1 ELSE 0
        premium == IF premiumPct > threshold THEN state.consecutive.premium + 1 ELSE 0
    IN [state EXCEPT !.consecutive = [discount |-> discount, premium |-> premium]]

(* canFlipAction counting one confirmation too many *)
canFlipActionOffByOne(lastAction, confirmations, t) ==
    LET elapsed == t - lastAction.timestamp
        holdSatisfied == elapsed >= minHoldMs
        confirmationsSatisfied == confirmations + 1 >= config.confirmationChecks
    IN holdSatisfied \/ confirmationsSatisfied

(* canFlipAction requiring both conditions *)
canFlipActionAnd(lastAction, confirmations, t) ==
    LET elapsed == t - lastAction.timestamp
        holdSatisfied == elapsed >= minHoldMs
        confirmationsSatisfied == confirmations >= config.confirmationChecks
    IN holdSatisfied /\ confirmationsSatisfied

canFlipAction(lastAction, confirmations, t) ==
    LET elapsed == t - lastAction.timestamp
        holdSatisfied == elapsed >= minHoldMs
        confirmationsSatisfied == confirmations >= config.confirmationChecks
    IN holdSatisfied \/ confirmationsSatisfied

(* decideAction without the cooldown gate *)
decideActionNoCooldown(state, discountPct, premiumPct, t) ==
    LET threshold == config.thresholdPct
        lastAction == state.lastAction
    IN IF discountPct > threshold
       THEN IF lastAction.type = "withdraw"
               /\ ~canFlipAction(lastAction, state.consecutive.discount, t)
            THEN [action |-> "none", reason |-> "stake_waiting_confirmation"]
            ELSE [action |-> "stake", reason |-> "discount_threshold"]
       ELSE IF premiumPct > threshold
       THEN IF lastAction.type = "stake"
               /\ ~canFlipAction(lastAction, state.consecutive.premium, t)
            THEN [action |-> "none", reason |-> "withdraw_waiting_confirmation"]
            ELSE [action |-> "withdraw", reason |-> "premium_threshold"]
       ELSE [action |-> "none", reason |-> "no_signal"]

(* decideAction with the premium signal checked before the discount signal *)
decideActionPremiumFirst(state, discountPct, premiumPct, t) ==
    LET threshold == config.thresholdPct
        lastAction == state.lastAction
        inCooldown == lastAction # NoAction /\ t - lastAction.timestamp < cooldownMs
    IN IF inCooldown
       THEN [action |-> "none", reason |-> "cooldown_active"]
       ELSE IF premiumPct > threshold
       THEN IF lastAction.type = "stake"
               /\ ~canFlipAction(lastAction, state.consecutive.premium, t)
            THEN [action |-> "none", reason |-> "withdraw_waiting_confirmation"]
            ELSE [action |-> "withdraw", reason |-> "premium_threshold"]
       ELSE IF discountPct > threshold
       THEN IF lastAction.type = "withdraw"
               /\ ~canFlipAction(lastAction, state.consecutive.discount, t)
            THEN [action |-> "none", reason |-> "stake_waiting_confirmation"]
            ELSE [action |-> "stake", reason |-> "discount_threshold"]
       ELSE [action |-> "none", reason |-> "no_signal"]

(* decideAction that asks for the confirmations or the hold before a first action *)
decideActionFirstGated(state, discountPct, premiumPct, t) ==
    LET threshold == config.thresholdPct
        lastAction == state.lastAction
        inCooldown == lastAction # NoAction /\ t - lastAction.timestamp < cooldownMs
    IN IF inCooldown
       THEN [action |-> "none", reason |-> "cooldown_active"]
       ELSE IF discountPct > threshold
       THEN IF lastAction.type # "stake"
               /\ ~canFlipAction(lastAction, state.consecutive.discount, t)
            THEN [action |-> "none", reason |-> "stake_waiting_confirmation"]
            ELSE [action |-> "stake", reason |-> "discount_threshold"]
       ELSE IF premiumPct > threshold
       THEN IF lastAction.type # "withdraw"
               /\ ~canFlipAction(lastAction, state.consecutive.premium, t)
            THEN [action |-> "none", reason |-> "withdraw_waiting_confirmation"]
            ELSE [action |-> "withdraw", reason |-> "premium_threshold"]
       ELSE [action |-> "none", reason |-> "no_signal"]

decideAction(state, discountPct, premiumPct, t) ==
    LET threshold == config.thresholdPct
        lastAction == state.lastAction
        inCooldown == lastAction # NoAction /\ t - lastAction.timestamp < cooldownMs
    IN IF inCooldown
       THEN [action |-> "none", reason |-> "cooldown_active"]
       ELSE IF discountPct > threshold
       THEN IF lastAction.type = "withdraw"
               /\ ~canFlipAction(lastAction, state.consecutive.discount, t)
            THEN [action |-> "none", reason |-> "stake_waiting_confirmation"]
            ELSE [action |-> "stake", reason |-> "discount_threshold"]
       ELSE IF premiumPct > threshold
       THEN IF lastAction.type = "stake"
               /\ ~canFlipAction(lastAction, state.consecutive.premium, t)
            THEN [action |-> "none", reason |-> "withdraw_waiting_confirmation"]
            ELSE [action |-> "withdraw", reason |-> "premium_threshold"]
       ELSE [action |-> "none", reason |-> "no_signal"]

----------------------------------------------------------------------------
(* LidoService and the withdrawal queue behind it *)

NoStatus == [isFinalized |-> FALSE, isClaimed |-> FALSE]
Finalized == [isFinalized |-> TRUE, isClaimed |-> FALSE]
Claimed == [isFinalized |-> TRUE, isClaimed |-> TRUE]
GwStatuses == {NoStatus, Finalized, Claimed}

(* getWithdrawalStatuses: the answers are paired with the ids by position *)
getWithdrawalStatuses(requestIds) ==
    [index \in 1..Len(requestIds) |->
        [requestId |-> requestIds[index],
         isFinalized |-> gw[requestIds[index]].isFinalized,
         isClaimed |-> gw[requestIds[index]].isClaimed]]

----------------------------------------------------------------------------
(* Withdrawal lifecycle tracker: the pure parts of claimReadyWithdrawals *)

(* pendingOf that forgets the entries already marked ready *)
pendingOfPendingOnly(state) ==
    SelectSeq(state.requests, LAMBDA req : req.status = "pending")

pendingOf(state) ==
    SelectSeq(state.requests, LAMBDA req : req.status = "pending" \/ req.status = "ready")

requestIdsOf(pending) == [i \in 1..Len(pending) |-> pending[i].requestId]

(* readyIdsOf that does not look at isFinalized *)
readyIdsOfNotClaimed(statuses) ==
    {statuses[i].requestId : i \in {j \in 1..Len(statuses) : ~statuses[j].isClaimed}}

(* readyIdsOf that keeps only the first finalized, unclaimed request *)
readyIdsOfFirst(statuses) ==
    LET ready == {j \in 1..Len(statuses) :
                    statuses[j].isFinalized /\ ~statuses[j].isClaimed}
    IN IF ready = {} THEN {}
       ELSE {statuses[CHOOSE j \in ready : \A k \in ready : j <= k].requestId}

(* readyIdsOf that does not look at isClaimed *)
readyIdsOfFinalized(statuses) ==
    {statuses[i].requestId : i \in {j \in 1..Len(statuses) : statuses[j].isFinalized}}

readyIdsOf(statuses) ==
    {statuses[i].requestId : i \in {j \in 1..Len(statuses) :
        statuses[j].isFinalized /\ ~statuses[j].isClaimed}}

claimedIdsOf(statuses) ==
    {statuses[i].requestId : i \in {j \in 1..Len(statuses) : statuses[j].isClaimed}}

(* history helpers *)
StatusesOf(f) == [i \in 1..Len(loadState(f).requests) |-> loadState(f).requests[i].status]
NoDecision == [action |-> "undecided", reason |-> "", now |-> 0]
NoTx == [kind |-> "none", amount |-> 0, mined |-> <<>>]
NoPass == [ran |-> FALSE, same |-> FALSE, queryFailed |-> FALSE, changed |-> FALSE,
           claimSent |-> FALSE, ok |-> FALSE]
NoPrevPass == [ran |-> FALSE, queryFailed |-> FALSE, ok |-> FALSE, failed |-> {}]

----------------------------------------------------------------------------
NoLoop == [backoffMs |-> 5000, sleepMs |-> 0, failures |-> 0]
(* no second instance is running *)
NoOther == [pc |-> "off", updatedState |-> DefaultState]

(* the API server is not running *)
NoApi == [pc |-> "off", requests |-> <<>>, snapshot |-> <<>>,
          answers |-> [id \in Ids |-> NoStatus], truthful |-> TRUE, marked |-> {}]

InitRunner ==
    /\ loop = NoLoop
    /\ gw = [id \in Ids |-> NoStatus]
    /\ pc = "idle"
    /\ tickOk = TRUE
    /\ priceRatio = 0
    /\ ethBalance = 0
    /\ stethBalance = 0
    /\ updatedState = DefaultState
    /\ startState = DefaultState
    /\ readyIds = {}
    /\ decision = NoDecision
    /\ tickTx = NoTx
    /\ claimTxs = <<>>
    /\ pass = NoPass
    /\ prevPass = NoPrevPass
    /\ gwSame = FALSE

(* The runner starts without a state file *)
InitCommon ==
    /\ InitRunner
    /\ file = NoFile

(* The runner starts with any configuration; the queue has one id left to hand out *)
Init ==
    /\ InitCommon
    /\ config \in Configs
    /\ pool = Pool
    /\ dash = NoDash
    /\ other = NoOther
    /\ chain = Balances
    /\ api = NoApi
    /\ now = 0
    /\ nextRequestId = MaxId

(* The runner starts with one configuration without cooldown and a fresh queue, at
   the end of the clock's range: the ticks follow each other within one Step *)
InitTracker ==
    /\ InitCommon
    /\ config = TrackerConfig
    /\ pool = Pool
    /\ dash = NoDash
    /\ other = NoOther
    /\ chain = Balances
    /\ api = NoApi
    /\ now = MaxSteps * Step
    /\ nextRequestId = 1

(* runOnce ends: start() resets or keeps the backoff and goes to sleep *)
Return == /\ pc' = "sleep" /\ tickOk' = TRUE
Throw == /\ pc' = "sleep" /\ tickOk' = FALSE

(* runOnce, line 62: the price read.  The reads of the pool succeed and
   getStethEthPriceRatio returns or throws, or a read of the pool fails. *)
ReadPrice ==
    /\ pc = "idle"
    /\ \/ /\ \E sqrtPriceX96 \in pool.slot0 :
              LET result == getStethEthPriceRatio(sqrtPriceX96)
                  ratio == result.ratio
              IN
                /\ ~result.threw
                /\ loadState(file) # LoadError =>
                      /\ updateConsecutive(loadState(file), discountPctOf(ratio),
                                           premiumPctOf(ratio)).consecutive.discount
                            <= MaxCount
                      /\ updateConsecutive(loadState(file), discountPctOf(ratio),
                                           premiumPctOf(ratio)).consecutive.premium
                            <= MaxCount
                /\ priceRatio' = ratio
          /\ pc' = "balances"
          /\ UNCHANGED tickOk
       \/ /\ \E sqrtPriceX96 \in pool.slot0 : getStethEthPriceRatio(sqrtPriceX96).threw
          /\ Throw
          /\ UNCHANGED priceRatio
       \/ /\ Throw
          /\ UNCHANGED priceRatio
    /\ startState' = loadState(file)
    /\ UNCHANGED <<config, pool, chain, api, dash, other, loop, now, file, gw, nextRequestId, ethBalance, stethBalance,
                   updatedState, readyIds, decision, tickTx, claimTxs,
                   pass, prevPass, gwSame>>

(* ReadBalances that keeps the updated counters in memory and leaves the save to
   the later writes of the tick *)
ReadBalancesNoSave ==
    /\ pc = "balances"
    /\ \/ /\ \E eth \in chain.eth, steth \in chain.steth :
                /\ ethBalance' = eth
                /\ stethBalance' = steth
          /\ loadState(file) = LoadError
          /\ Throw
          /\ UNCHANGED <<updatedState, file>>
       \/ /\ \E eth \in chain.eth, steth \in chain.steth :
                /\ ethBalance' = eth
                /\ stethBalance' = steth
          /\ loadState(file) # LoadError
          /\ LET state == loadState(file)
                 updated == updateConsecutive(state, discountPctOf(priceRatio),
                                              premiumPctOf(priceRatio))
             IN /\ updatedState' = updated
                /\ file' = file
          /\ pc' = "track"
          /\ UNCHANGED tickOk
       \/ /\ Throw
          /\ UNCHANGED <<ethBalance, stethBalance, updatedState, file>>
    /\ UNCHANGED <<config, pool, chain, api, dash, other, loop, now, gw, nextRequestId, priceRatio, startState, readyIds, decision,
                   tickTx, claimTxs, pass, prevPass, gwSame>>

(* runOnce, lines 66-74: the balance reads, then load, updateConsecutive, save; a
   load that throws ends the tick after the balances were read *)
ReadBalances ==
    /\ pc = "balances"
    /\ \/ /\ \E eth \in chain.eth, steth \in chain.steth :
                /\ ethBalance' = eth
                /\ stethBalance' = steth
          /\ loadState(file) = LoadError
          /\ Throw
          /\ UNCHANGED <<updatedState, file>>
       \/ /\ \E eth \in chain.eth, steth \in chain.steth :
                /\ ethBalance' = eth
                /\ stethBalance' = steth
          /\ loadState(file) # LoadError
          /\ LET state == loadState(file)
                 updated == updateConsecutive(state, discountPctOf(priceRatio),
                                              premiumPctOf(priceRatio))
             IN /\ updatedState' = updated
                /\ file' = saveState(updated)
          /\ pc' = "track"
          /\ UNCHANGED tickOk
       \/ /\ Throw
          /\ UNCHANGED <<ethBalance, stethBalance, updatedState, file>>
    /\ UNCHANGED <<config, pool, chain, api, dash, other, loop, now, gw, nextRequestId, priceRatio, startState, readyIds, decision,
                   tickTx, claimTxs, pass, prevPass, gwSame>>

(* claimReadyWithdrawals, lines 229-232: nothing outstanding *)
TrackNothing ==
    /\ pc = "track"
    /\ Len(pendingOf(updatedState)) = 0
    /\ pass' = [NoPass EXCEPT !.ran = TRUE, !.same = gwSame, !.ok = TRUE]
    /\ gwSame' = TRUE
    /\ pc' = "decide"
    /\ UNCHANGED <<config, pool, chain, api, dash, other, loop, now, file, gw, nextRequestId, tickOk, priceRatio, ethBalance,
                   stethBalance, updatedState, startState, readyIds, decision, tickTx,
                   claimTxs, prevPass>>

(* StatusQuery that swallows a failed status query and goes on to the decision *)
StatusQuerySwallow ==
    /\ pc = "track"
    /\ Len(pendingOf(updatedState)) > 0
    /\ gwSame' = TRUE
    /\ \/ LET statuses == getWithdrawalStatuses(requestIdsOf(pendingOf(updatedState)))
              ready == readyIdsOf(statuses)
              claimed == claimedIdsOf(statuses)
              afterClaimed == markRequests(file, claimed, "claimed")
              afterReady == markRequests(afterClaimed, ready, "ready")
          IN /\ file' = afterReady
             /\ readyIds' = ready
             /\ IF ready = {}
                THEN /\ pc' = "decide"
                     /\ claimTxs' = claimTxs
                ELSE /\ pc' = "claim"
                     /\ claimTxs' = Append(claimTxs, ready)
             /\ pass' = [ran |-> TRUE, same |-> gwSame, queryFailed |-> FALSE,
                         changed |-> StatusesOf(afterReady) # StatusesOf(file),
                         claimSent |-> ready # {}, ok |-> ready = {}]
             /\ UNCHANGED tickOk
       \/ /\ pc' = "decide"
          /\ pass' = [NoPass EXCEPT !.ran = TRUE, !.same = gwSame, !.queryFailed = TRUE]
          /\ UNCHANGED <<file, readyIds, claimTxs, tickOk>>
    /\ UNCHANGED <<config, pool, chain, api, dash, other, loop, now, gw, nextRequestId, priceRatio, ethBalance, stethBalance,
                   updatedState, startState, decision, tickTx, prevPass>>

(* claimReadyWithdrawals, lines 234-258: the status query, the two markRequests
   and the call of claimWithdrawals *)
StatusQuery ==
    /\ pc = "track"
    /\ Len(pendingOf(updatedState)) > 0
    /\ gwSame' = TRUE
    /\ \/ LET statuses == getWithdrawalStatuses(requestIdsOf(pendingOf(updatedState)))
              ready == readyIdsOf(statuses)
              claimed == claimedIdsOf(statuses)
              afterClaimed == markRequests(file, claimed, "claimed")
              afterReady == markRequests(afterClaimed, ready, "ready")
          IN /\ file' = afterReady
             /\ readyIds' = ready
             /\ IF ready = {}
                THEN /\ pc' = "decide"
                     /\ claimTxs' = claimTxs
                ELSE /\ pc' = "claim"
                     /\ claimTxs' = Append(claimTxs, ready)
             /\ pass' = [ran |-> TRUE, same |-> gwSame, queryFailed |-> FALSE,
                         changed |-> StatusesOf(afterReady) # StatusesOf(file),
                         claimSent |-> ready # {}, ok |-> ready = {}]
             /\ UNCHANGED tickOk
       \/ /\ Throw
          /\ pass' = [NoPass EXCEPT !.ran = TRUE, !.same = gwSame, !.queryFailed = TRUE]
          /\ UNCHANGED <<file, readyIds, claimTxs>>
    /\ UNCHANGED <<config, pool, chain, api, dash, other, loop, now, gw, nextRequestId, priceRatio, ethBalance, stethBalance,
                   updatedState, startState, decision, tickTx, prevPass>>

(* ClaimTx that goes on to the decision when the claim transaction fails *)
ClaimTxSwallow ==
    /\ pc = "claim"
    /\ \/ /\ file' = markRequests(file, readyIds, "claimed")
          /\ gw' = [id \in Ids |-> IF id \in readyIds THEN Claimed ELSE gw[id]]
          /\ pass' = [pass EXCEPT !.changed = TRUE, !.ok = TRUE]
          /\ pc' = "decide"
          /\ UNCHANGED tickOk
       \/ /\ pc' = "decide"
          /\ UNCHANGED <<tickOk, file, pass, gw>>
    /\ UNCHANGED <<config, pool, chain, api, dash, other, loop, now, nextRequestId, priceRatio, ethBalance, stethBalance,
                   updatedState, startState, readyIds, decision, tickTx, claimTxs,
                   prevPass, gwSame>>

(* ClaimTx that does not record the confirmed claim in the ledger *)
ClaimTxNoMark ==
    /\ pc = "claim"
    /\ \/ /\ gw' = [id \in Ids |-> IF id \in readyIds THEN Claimed ELSE gw[id]]
          /\ pass' = [pass EXCEPT !.ok = TRUE]
          /\ pc' = "decide"
          /\ UNCHANGED <<tickOk, file>>
       \/ /\ Throw
          /\ UNCHANGED <<file, pass, gw>>
    /\ UNCHANGED <<config, pool, chain, api, dash, other, loop, now, nextRequestId, priceRatio, ethBalance, stethBalance,
                   updatedState, startState, readyIds, decision, tickTx, claimTxs,
                   prevPass, gwSame>>

(* ClaimTx that marks the claimed requests in the snapshot the pass was called
   with and saves that *)
ClaimTxStale ==
    /\ pc = "claim"
    /\ \/ /\ file' = markRequests(saveState(updatedState), readyIds, "claimed")
          /\ gw' = [id \in Ids |-> IF id \in readyIds THEN Claimed ELSE gw[id]]
          /\ pass' = [pass EXCEPT !.changed = TRUE, !.ok = TRUE]
          /\ pc' = "decide"
          /\ UNCHANGED tickOk
       \/ /\ Throw
          /\ UNCHANGED <<file, pass, gw>>
    /\ UNCHANGED <<config, pool, chain, api, dash, other, loop, now, nextRequestId, priceRatio, ethBalance, stethBalance,
                   updatedState, startState, readyIds, decision, tickTx, claimTxs,
                   prevPass, gwSame>>

(* claimReadyWithdrawals, lines 258-259: the claim transaction is mined or fails *)
ClaimTx ==
    /\ pc = "claim"
    /\ \/ /\ file' = markRequests(file, readyIds, "claimed")
          /\ gw' = [id \in Ids |-> IF id \in readyIds THEN Claimed ELSE gw[id]]
          /\ pass' = [pass EXCEPT !.changed = TRUE, !.ok = TRUE]
          /\ pc' = "decide"
          /\ UNCHANGED tickOk
       \/ /\ Throw
          /\ UNCHANGED <<file, pass, gw>>
    /\ UNCHANGED <<config, pool, chain, api, dash, other, loop, now, nextRequestId, priceRatio, ethBalance, stethBalance,
                   updatedState, startState, readyIds, decision, tickTx, claimTxs,
                   prevPass, gwSame>>

(* spendableOf that leaves no safety buffer *)
spendableOfNoBuffer(balance) == balance

(* stakeAll, line 166 *)
spendableOf(balance) ==
    IF balance > safetyBufferEth THEN balance - safetyBufferEth ELSE 0

(* Decide without the minimum-trade guards of stakeAll and withdrawAll *)
DecideNoMinimum ==
    /\ pc = "decide"
    /\ LET d == decideAction(updatedState, discountPctOf(priceRatio),
                             premiumPctOf(priceRatio), now)
           spendable == spendableOf(ethBalance)
       IN /\ decision' = [action |-> d.action, reason |-> d.reason, now |-> now]
          /\ CASE d.action = "none" ->
                    /\ Return
                    /\ tickTx' = tickTx
               [] d.action = "stake" /\ spendable < 0 ->
                    /\ Return
                    /\ tickTx' = tickTx
               [] d.action = "stake" /\ spendable >= 0 /\ spendable <= 0 ->
                    /\ Throw
                    /\ tickTx' = tickTx
               [] d.action = "stake" /\ spendable >= 0 /\ spendable > 0 ->
                    /\ pc' = "stake"
                    /\ tickTx' = [kind |-> "stake", amount |-> spendable, mined |-> <<>>]
                    /\ UNCHANGED tickOk
               [] d.action = "withdraw" /\ stethBalance < 0 ->
                    /\ Return
                    /\ tickTx' = tickTx
               [] d.action = "withdraw" /\ stethBalance >= 0
                                        /\ stethBalance <= 0 ->
                    /\ Throw
                    /\ tickTx' = tickTx
               [] d.action = "withdraw" /\ stethBalance >= 0
                                        /\ stethBalance > 0 ->
                    /\ pc' = "withdraw"
                    /\ tickTx' = [kind |-> "withdraw", amount |-> stethBalance, mined |-> <<>>]
                    /\ UNCHANGED tickOk
    /\ UNCHANGED <<config, pool, chain, api, dash, other, loop, now, file, gw, nextRequestId, priceRatio, ethBalance,
                   stethBalance, updatedState, startState, readyIds, claimTxs, pass,
                   prevPass, gwSame>>

(* runOnce, lines 86-97, with stakeAll and withdrawAll up to the transaction they
   send: the decision, the minimum-trade guards, and the amount checks of
   LidoService.stakeEth and LidoService.requestWithdrawals *)
Decide ==
    /\ pc = "decide"
    /\ LET d == decideAction(updatedState, discountPctOf(priceRatio),
                             premiumPctOf(priceRatio), now)
           spendable == spendableOf(ethBalance)
       IN /\ decision' = [action |-> d.action, reason |-> d.reason, now |-> now]
          /\ CASE d.action = "none" ->
                    /\ Return
                    /\ tickTx' = tickTx
               [] d.action = "stake" /\ spendable < minTradeEth ->
                    /\ Return
                    /\ tickTx' = tickTx
               [] d.action = "stake" /\ spendable >= minTradeEth /\ spendable <= 0 ->
                    /\ Throw
                    /\ tickTx' = tickTx
               [] d.action = "stake" /\ spendable >= minTradeEth /\ spendable > 0 ->
                    /\ pc' = "stake"
                    /\ tickTx' = [kind |-> "stake", amount |-> spendable, mined |-> <<>>]
                    /\ UNCHANGED tickOk
               [] d.action = "withdraw" /\ stethBalance < minTradeSteth ->
                    /\ Return
                    /\ tickTx' = tickTx
               [] d.action = "withdraw" /\ stethBalance >= minTradeSteth
                                        /\ stethBalance <= 0 ->
                    /\ Throw
                    /\ tickTx' = tickTx
               [] d.action = "withdraw" /\ stethBalance >= minTradeSteth
                                        /\ stethBalance > 0 ->
                    /\ pc' = "withdraw"
                    /\ tickTx' = [kind |-> "withdraw", amount |-> stethBalance, mined |-> <<>>]
                    /\ UNCHANGED tickOk
    /\ UNCHANGED <<config, pool, chain, api, dash, other, loop, now, file, gw, nextRequestId, priceRatio, ethBalance,
                   stethBalance, updatedState, startState, readyIds, claimTxs, pass,
                   prevPass, gwSame>>

(* StakeTx that records the stake before it knows the outcome of the transaction *)
StakeTxRecordsFirst ==
    /\ pc = "stake"
    /\ \E dt \in {0, Step} :
          /\ now + dt <= MaxSteps * Step
          /\ now' = now + dt
          /\ file' = setLastAction(file, "stake", now + dt)
          /\ \/ Return
             \/ Throw
    /\ UNCHANGED <<config, pool, chain, api, dash, other, loop, gw, nextRequestId, priceRatio, ethBalance, stethBalance,
                   updatedState, startState, readyIds, decision, tickTx, claimTxs, pass,
                   prevPass, gwSame>>

(* StakeTx that goes on to the withdrawal request when the premium also exceeds
   the threshold *)
StakeTxThenWithdraw ==
    /\ pc = "stake"
    /\ \E dt \in {0, Step} :
          /\ now + dt <= MaxSteps * Step
          /\ now' = now + dt
          /\ \/ /\ file' = setLastAction(file, "stake", now + dt)
                /\ IF premiumPctOf(priceRatio) > config.thresholdPct
                   THEN pc' = "withdraw" /\ UNCHANGED tickOk
                   ELSE Return
             \/ /\ Throw
                /\ UNCHANGED file
    /\ UNCHANGED <<config, pool, chain, api, dash, other, loop, gw, nextRequestId, priceRatio, ethBalance, stethBalance,
                   updatedState, startState, readyIds, decision, tickTx, claimTxs, pass,
                   prevPass, gwSame>>

(* stakeAll, lines 176-187: the stake transaction is mined, some time later, or fails *)
StakeTx ==
    /\ pc = "stake"
    /\ \E dt \in {0, Step} :
          /\ now + dt <= MaxSteps * Step
          /\ now' = now + dt
          /\ \/ /\ file' = setLastAction(file, "stake", now + dt)
                /\ Return
             \/ /\ Throw
                /\ UNCHANGED file
    /\ UNCHANGED <<config, pool, chain, api, dash, other, loop, gw, nextRequestId, priceRatio, ethBalance, stethBalance,
                   updatedState, startState, readyIds, decision, tickTx, claimTxs, pass,
                   prevPass, gwSame>>

(* LidoService, tx.hash: the hash of a transaction, kept as the call it carries *)
txHashOf(call, amount) == <<call, amount>>

(* withdrawAll, lines 204-225, with LidoService.requestWithdrawals: the dry run
   yields the id the queue would assign at that moment; requests of other users
   may be mined before the transaction, which is mined or fails; then addRequests
   with the ids of the dry run and the lastAction update.  tickTx.mined keeps the
   id the queue assigned to the mined request.  Ids beyond MaxId are not handed
   out: the queue's counter is kept up to MaxId + 1. *)
WithdrawTx ==
    /\ pc = "withdraw"
    /\ \E dt \in {0, Step}, others \in {0, 1} :
          /\ now + dt <= MaxSteps * Step
          /\ now' = now + dt
          /\ \/ /\ nextRequestId \in Ids
                /\ LET requestIds == <<nextRequestId>>
                       added == addRequests(file,
                                   [i \in 1..Len(requestIds) |->
                                       [requestId |-> requestIds[i],
                                        amountSteth |-> stethBalance,
                                        txHash |-> txHashOf("requestWithdrawals",
                                                            stethBalance)]],
                                   now + dt)
                   IN file' = setLastAction(added, "withdraw", now + dt)
                /\ nextRequestId' = Min(nextRequestId + others + 1, MaxId + 1)
                /\ tickTx' = [tickTx EXCEPT !.mined = <<nextRequestId + others>>]
                /\ Return
             \/ /\ Throw
                /\ UNCHANGED <<file, nextRequestId, tickTx>>
    /\ UNCHANGED <<config, pool, chain, api, dash, other, loop, gw, priceRatio, ethBalance, stethBalance,
                   updatedState, startState, readyIds, decision, claimTxs, pass,
                   prevPass, gwSame>>

(* start, lines 46-58: the sleep after a tick ends and the next iteration starts
   with fresh locals *)
EndSleep ==
    /\ pc = "sleep"
    /\ \E dt \in {0, Step} :
          /\ now + dt <= MaxSteps * Step
          /\ now' = now + dt
    /\ pc' = "idle"
    /\ priceRatio' = 0
    /\ ethBalance' = 0
    /\ stethBalance' = 0
    /\ updatedState' = DefaultState
    /\ startState' = DefaultState
    /\ readyIds' = {}
    /\ decision' = NoDecision
    /\ tickTx' = NoTx
    /\ claimTxs' = <<>>
    /\ prevPass' = IF pass.ran
                    THEN [ran |-> TRUE, queryFailed |-> pass.queryFailed, ok |-> pass.ok,
                          failed |-> IF pass.claimSent /\ ~pass.ok THEN readyIds ELSE {}]
                    ELSE prevPass
    /\ pass' = NoPass
    /\ UNCHANGED <<config, pool, chain, api, dash, other, file, gw, nextRequestId, tickOk, gwSame>>

(* a loop that ends with the first failed tick *)
SleepAfterSuccessOnly == tickOk /\ EndSleep /\ UNCHANGED loop

(* start, lines 46-58, with the length of the sleep left open (the clock moves by
   0 or Step) and backoffMs not followed *)
Sleep == EndSleep /\ UNCHANGED loop

(* SleepTimed that keeps the backoff reached when a tick succeeds *)
SleepTimedNoReset ==
    /\ EndSleep
    /\ loop' = IF tickOk
               THEN [backoffMs |-> loop.backoffMs, sleepMs |-> loopMs, failures |-> 0]
               ELSE [backoffMs |-> Min(maxBackoffMs, loop.backoffMs * 2),
                     sleepMs |-> loop.backoffMs,
                     failures |-> Min(loop.failures + 1, MaxFail)]

(* start, lines 46-58, with its timing: after a tick that returned, backoffMs is
   reset and the sleep is loopMs; after a tick that threw, the sleep is backoffMs,
   which is then doubled up to maxBackoffMs.  loop.sleepMs keeps the argument of
   the sleep and loop.failures the number of failed ticks in a row, counted up to
   MaxFail. *)
SleepTimed ==
    /\ EndSleep
    /\ loop' = IF tickOk
               THEN [backoffMs |-> 5000, sleepMs |-> loopMs, failures |-> 0]
               ELSE [backoffMs |-> Min(maxBackoffMs, loop.backoffMs * 2),
                     sleepMs |-> loop.backoffMs,
                     failures |-> Min(loop.failures + 1, MaxFail)]

(* The withdrawal queue changes what it answers for an outstanding request *)
GatewaySet ==
    /\ pc = "idle"
    /\ loadState(file) # LoadError
    /\ \E i \in 1..Len(loadState(file).requests), s \in GwStatuses :
          /\ loadState(file).requests[i].status # "claimed"
          /\ s # gw[loadState(file).requests[i].requestId]
          /\ gw' = [gw EXCEPT ![loadState(file).requests[i].requestId] = s]
    /\ gwSame' = FALSE
    /\ UNCHANGED <<config, pool, chain, api, dash, other, loop, now, file, nextRequestId, pc, tickOk, priceRatio, ethBalance,
                   stethBalance, updatedState, startState, readyIds, decision, tickTx,
                   claimTxs, pass, prevPass>>

Next ==
    \/ ReadPrice
    \/ ReadBalances
    \/ TrackNothing
    \/ StatusQuery
    \/ ClaimTx
    \/ Decide
    \/ StakeTx
    \/ WithdrawTx
    \/ Sleep
    \/ GatewaySet

Spec == Init /\ [][Next]_vars

SpecTracker == InitTracker /\ [][Next]_vars

(* The scheduling the liveness properties rest on.  The loop keeps ticking: start()
   awaits each call and each timer, and whichever step the runner is at is
   eventually taken.  The calls to the chain eventually succeed: a read, the
   status query or the claim transaction that is attempted again and again does
   not fail every time. *)
Tick ==
    \/ ReadPrice \/ ReadBalances \/ TrackNothing \/ StatusQuery \/ ClaimTx
    \/ Decide \/ StakeTx \/ WithdrawTx \/ Sleep

Fairness ==
    /\ WF_vars(Tick)
    /\ SF_vars(ReadPrice /\ pc' = "balances")
    /\ SF_vars(ReadBalances /\ pc' = "track")
    /\ SF_vars(StatusQuery /\ ~pass'.queryFailed)
    /\ SF_vars(ClaimTx /\ pc' = "decide")

(* As InitTracker, with one id left to hand out: the ledger holds at most one entry *)
InitLive ==
    /\ InitCommon
    /\ config = TrackerConfig
    /\ pool = Pool
    /\ dash = NoDash
    /\ other = NoOther
    /\ chain = Balances
    /\ api = NoApi
    /\ now = MaxSteps * Step
    /\ nextRequestId = MaxId

SpecLive == InitLive /\ [][Next]_vars /\ Fairness

(* The runner starts with any of the guard configurations *)
InitGuards ==
    /\ InitCommon
    /\ config \in GuardConfigs
    /\ pool = Pool
    /\ dash = NoDash
    /\ other = NoOther
    /\ chain = GuardBalances
    /\ api = NoApi
    /\ now = MaxSteps * Step
    /\ nextRequestId = MaxId

SpecGuards == InitGuards /\ [][Next]_vars

(* The runner starts with whatever the state file holds *)
InitStore ==
    /\ InitRunner
    /\ file \in StartFiles
    /\ config = TrackerConfig
    /\ pool = Pool
    /\ dash = NoDash
    /\ other = NoOther
    /\ chain = Balances
    /\ api = NoApi
    /\ now = MaxSteps * Step
    /\ nextRequestId = MaxId

SpecStore == InitStore /\ [][Next]_vars

(* The loop with only its own scheduling: every step the runner is at is
   eventually taken, and calls may fail for ever *)
SpecTicking == InitLive /\ [][Next]_vars /\ WF_vars(Tick)

(* The loop with the timing of its sleeps *)
InitLoop ==
    /\ InitCommon
    /\ config \in LoopConfigs
    /\ pool = Pool
    /\ dash = NoDash
    /\ other = NoOther
    /\ chain = Balances
    /\ api = NoApi
    /\ now = MaxSteps * Step
    /\ nextRequestId = MaxId

NextLoop ==
    \/ ReadPrice
    \/ ReadBalances
    \/ TrackNothing
    \/ StatusQuery
    \/ ClaimTx
    \/ Decide
    \/ StakeTx
    \/ WithdrawTx
    \/ SleepTimed
    \/ GatewaySet

SpecLoop == InitLoop /\ [][NextLoop]_vars

(* The ledger over time: the queue has two ids to hand out and the clock one Step
   to go, so that entries are created and claimed at different times *)
InitLedger ==
    /\ InitCommon
    /\ config = TrackerConfig
    /\ pool = Pool
    /\ dash = NoDash
    /\ other = NoOther
    /\ chain = Balances
    /\ api = NoApi
    /\ now = (MaxSteps - 1) * Step
    /\ nextRequestId = MaxId - 1

SpecLedger == InitLedger /\ [][Next]_vars

(* The runner started against any pool *)
InitOracle ==
    /\ InitCommon
    /\ config = TrackerConfig
    /\ pool \in Pools
    /\ dash = NoDash
    /\ other = NoOther
    /\ chain = Balances
    /\ api = NoApi
    /\ now = MaxSteps * Step
    /\ nextRequestId = MaxId

SpecOracle == InitOracle /\ [][Next]_vars

(* A second instance of the runner, started on the same state file.  Of its tick
   the load and the save of lines 71-74 are followed, as two steps: they are
   synchronous calls of its own process, between which the first instance can
   run.  The rest of its tick is taken to write nothing (it decides none, or its
   status query or its transaction fails), and it is followed for one tick. *)

(* OtherSave that loads the file again and saves its counters into that *)
OtherSaveReloads ==
    /\ other.pc = "loaded"
    /\ loadState(file) # LoadError
    /\ file' = saveState([loadState(file) EXCEPT
                            !.consecutive = other.updatedState.consecutive])
    /\ other' = [pc |-> "done", updatedState |-> DefaultState]
    /\ UNCHANGED <<config, pool, chain, api, dash, loop, now, gw, nextRequestId, pc, tickOk,
                   priceRatio, ethBalance, stethBalance, updatedState, startState,
                   readyIds, decision, tickTx, claimTxs, pass, prevPass, gwSame>>

(* runOnce of the second instance, line 74: saveState(updatedState) *)
OtherSave ==
    /\ other.pc = "loaded"
    /\ file' = saveState(other.updatedState)
    /\ other' = [pc |-> "done", updatedState |-> DefaultState]
    /\ UNCHANGED <<config, pool, chain, api, dash, loop, now, gw, nextRequestId, pc, tickOk,
                   priceRatio, ethBalance, stethBalance, updatedState, startState,
                   readyIds, decision, tickTx, claimTxs, pass, prevPass, gwSame>>

(* runOnce of the second instance, lines 62-73: its price read, loadState and
   updateConsecutive *)
OtherLoad ==
    /\ other.pc = "idle"
    /\ loadState(file) # LoadError
    /\ \E sqrtPriceX96 \in pool.slot0 :
          LET result == getStethEthPriceRatio(sqrtPriceX96)
              updated == updateConsecutive(loadState(file), discountPctOf(result.ratio),
                                           premiumPctOf(result.ratio))
          IN /\ ~result.threw
             /\ updated.consecutive.discount <= MaxCount
             /\ updated.consecutive.premium <= MaxCount
             /\ other' = [pc |-> "loaded", updatedState |-> updated]
    /\ UNCHANGED <<config, pool, chain, api, dash, loop, now, file, gw, nextRequestId, pc, tickOk,
                   priceRatio, ethBalance, stethBalance, updatedState, startState,
                   readyIds, decision, tickTx, claimTxs, pass, prevPass, gwSame>>

(* Two instances on one state file, with balances that allow every trade *)
TwoBalances == [eth |-> {40}, steth |-> {30}]
InitTwo ==
    /\ InitCommon
    /\ config = TrackerConfig
    /\ pool = Pool
    /\ dash = NoDash
    /\ other = [pc |-> "idle", updatedState |-> DefaultState]
    /\ chain = TwoBalances
    /\ api = NoApi
    /\ now = MaxSteps * Step
    /\ nextRequestId = MaxId

NextTwo ==
    \/ ReadPrice
    \/ ReadBalances
    \/ TrackNothing
    \/ StatusQuery
    \/ ClaimTx
    \/ Decide
    \/ StakeTx
    \/ WithdrawTx
    \/ Sleep
    \/ GatewaySet
    \/ OtherLoad
    \/ OtherSave

SpecTwo == InitTwo /\ [][NextTwo]_vars

(* The dashboard computes the hurdle of a query, then the value signal *)
ComputeHurdle ==
    /\ dash.step = "query"
    /\ dash' = [dash EXCEPT
                  !.step = "hurdle",
                  !.hurdlePct = computeHurdlePct(dash.aprPct, dash.waitingTimeDays,
                                                 dash.riskPremiumPct,
                                                 dash.includeWaitingTimeCost)]
    /\ UNCHANGED <<config, pool, chain, api, other, loop, now, file, gw, nextRequestId, pc, tickOk,
                   priceRatio, ethBalance, stethBalance, updatedState, startState,
                   readyIds, decision, tickTx, claimTxs, pass, prevPass, gwSame>>

ComputeSignal ==
    /\ dash.step = "hurdle"
    /\ dash' = [dash EXCEPT
                  !.step = "signal",
                  !.valueSignal = computeValueSignal(dash.discountPct, dash.hurdlePct)]
    /\ UNCHANGED <<config, pool, chain, api, other, loop, now, file, gw, nextRequestId, pc, tickOk,
                   priceRatio, ethBalance, stethBalance, updatedState, startState,
                   readyIds, decision, tickTx, claimTxs, pass, prevPass, gwSame>>

(* The dashboard with any query; the bot is not running *)
InitDashboard ==
    /\ InitCommon
    /\ config = TrackerConfig
    /\ pool = Pool
    /\ dash \in Queries
    /\ other = NoOther
    /\ chain = Balances
    /\ api = NoApi
    /\ now = 0
    /\ nextRequestId = MaxId

NextDashboard ==
    \/ ComputeHurdle
    \/ ComputeSignal

SpecDashboard == InitDashboard /\ [][NextDashboard]_vars

(* The runner with a negative threshold, a threshold of zero and the default one *)
CounterConfigs == {[TrackerConfig EXCEPT !.thresholdPct = t] : t \in {-5, 0, 4}}
InitCounters ==
    /\ InitCommon
    /\ config \in CounterConfigs
    /\ pool = Pool
    /\ dash = NoDash
    /\ other = NoOther
    /\ chain = Balances
    /\ api = NoApi
    /\ now = MaxSteps * Step
    /\ nextRequestId = MaxId

SpecCounters == InitCounters /\ [][Next]_vars

(* The process can stop.  withdrawAll is followed call by call, so that the
   process can stop between two of them: requestWithdrawals (line 204), addRequests
   (lines 206-212) and the lastAction update (lines 222-225).  tickTx.requestIds
   keeps the local requestIds, the ids of the dry run. *)

(* withdrawAll, line 204, with LidoService.requestWithdrawals: as in WithdrawTx *)
WithdrawMined ==
    /\ pc = "withdraw"
    /\ \E dt \in {0, Step}, others \in {0, 1} :
          /\ now + dt <= MaxSteps * Step
          /\ now' = now + dt
          /\ \/ /\ nextRequestId \in Ids
                /\ nextRequestId' = Min(nextRequestId + others + 1, MaxId + 1)
                /\ tickTx' = [kind |-> tickTx.kind, amount |-> tickTx.amount,
                              mined |-> <<nextRequestId + others>>,
                              requestIds |-> <<nextRequestId>>]
                /\ pc' = "record"
                /\ UNCHANGED tickOk
             \/ /\ Throw
                /\ UNCHANGED <<nextRequestId, tickTx>>
    /\ UNCHANGED <<config, pool, chain, api, dash, other, loop, file, gw, priceRatio, ethBalance,
                   stethBalance, updatedState, startState, readyIds, decision, claimTxs,
                   pass, prevPass, gwSame>>

(* withdrawAll, lines 205-212: addRequests with the ids of the dry run *)
WithdrawRecord ==
    /\ pc = "record"
    /\ file' = addRequests(file,
                    [i \in 1..Len(tickTx.requestIds) |->
                        [requestId |-> tickTx.requestIds[i],
                         amountSteth |-> stethBalance,
                         txHash |-> txHashOf("requestWithdrawals", stethBalance)]],
                    now)
    /\ pc' = "lastAction"
    /\ UNCHANGED <<config, pool, chain, api, dash, other, loop, now, gw, nextRequestId, tickOk,
                   priceRatio, ethBalance, stethBalance, updatedState, startState,
                   readyIds, decision, tickTx, claimTxs, pass, prevPass, gwSame>>

(* withdrawAll, lines 222-225: the lastAction update; runOnce returns *)
WithdrawLastAction ==
    /\ pc = "lastAction"
    /\ file' = setLastAction(file, "withdraw", now)
    /\ Return
    /\ UNCHANGED <<config, pool, chain, api, dash, other, loop, now, gw, nextRequestId,
                   priceRatio, ethBalance, stethBalance, updatedState, startState,
                   readyIds, decision, tickTx, claimTxs, pass, prevPass, gwSame>>

(* The process stops, wherever it is; the state file stays as it was last saved,
   and what the tick had done stays on record *)
Crash ==
    /\ pc # "crashed"
    /\ pc' = "crashed"
    /\ UNCHANGED <<config, pool, chain, api, dash, other, loop, now, file, gw, nextRequestId,
                   tickOk, priceRatio, ethBalance, stethBalance, updatedState,
                   startState, readyIds, decision, tickTx, claimTxs, pass, prevPass,
                   gwSame>>

(* The process is started again: main builds a new runner and start() begins its
   first tick, with nothing but the state file *)
Restart ==
    /\ pc = "crashed"
    /\ pc' = "idle"
    /\ tickOk' = TRUE
    /\ priceRatio' = 0
    /\ ethBalance' = 0
    /\ stethBalance' = 0
    /\ updatedState' = DefaultState
    /\ startState' = DefaultState
    /\ readyIds' = {}
    /\ decision' = NoDecision
    /\ tickTx' = NoTx
    /\ claimTxs' = <<>>
    /\ pass' = NoPass
    /\ prevPass' = NoPrevPass
    /\ gwSame' = FALSE
    /\ UNCHANGED <<config, pool, chain, api, dash, other, loop, now, file, gw, nextRequestId>>

NextCrash ==
    \/ ReadPrice
    \/ ReadBalances
    \/ TrackNothing
    \/ StatusQuery
    \/ ClaimTx
    \/ Decide
    \/ StakeTx
    \/ WithdrawMined
    \/ WithdrawRecord
    \/ WithdrawLastAction
    \/ Sleep
    \/ GatewaySet
    \/ Crash
    \/ Restart

SpecCrash == InitLive /\ [][NextCrash]_vars

(* The API server (server/index.js): the withdrawal store data/withdrawals.json
   and the three endpoints that write it.  A request to /api/status is followed
   in two steps, before and after the awaited status query; api.snapshot is the
   store it loaded and api.answers what the query returned.  api.truthful says
   whether the answers were the queue's state at the time of the query, and
   api.marked keeps the ids the claim endpoint has marked. *)

Answers == [Ids -> GwStatuses]

(* refreshWithdrawalStatuses, lines 217-228: every entry takes the status derived
   from the answer for its id *)
refreshed(requests, answers) ==
    [i \in 1..Len(requests) |->
        [requests[i] EXCEPT !.status =
            IF answers[requests[i].requestId].isClaimed THEN "claimed"
            ELSE IF answers[requests[i].requestId].isFinalized THEN "ready"
            ELSE "pending"]]

(* POST /api/lido/withdraw/request: the request is mined and a pending entry is
   stored under the id the queue gave it, or the call fails *)
ApiWithdrawRequest ==
    /\ api.pc \in {"idle", "refresh"}
    /\ nextRequestId <= MaxId
    /\ api' = [api EXCEPT !.requests =
                Append(@, [requestId |-> nextRequestId, status |-> "pending",
                           claimedAt |-> NoTime])]
    /\ nextRequestId' = nextRequestId + 1
    /\ UNCHANGED <<config, pool, chain, dash, other, loop, now, file, gw, pc, tickOk, priceRatio,
                   ethBalance, stethBalance, updatedState, startState, readyIds, decision,
                   tickTx, claimTxs, pass, prevPass, gwSame>>

(* The withdrawal queue finalizes a request *)
ApiFinalize ==
    /\ api.pc \in {"idle", "refresh"}
    /\ \E id \in Ids :
          /\ id < nextRequestId
          /\ gw[id] = NoStatus
          /\ gw' = [gw EXCEPT ![id] = Finalized]
    /\ UNCHANGED <<config, pool, chain, api, dash, other, loop, now, file, nextRequestId, pc, tickOk,
                   priceRatio, ethBalance, stethBalance, updatedState, startState, readyIds,
                   decision, tickTx, claimTxs, pass, prevPass, gwSame>>

(* POST /api/lido/withdraw/claim: the claim transaction is mined for finalized,
   unclaimed requests, and the entries with the ids of the body are stored as
   claimed; a failed call (an empty list, a reverted transaction) changes nothing *)
ApiClaim ==
    /\ api.pc \in {"idle", "refresh"}
    /\ \E requestIds \in SUBSET Ids :
          \/ /\ requestIds # {}
             /\ \A id \in requestIds : gw[id] = Finalized
             /\ gw' = [id \in Ids |-> IF id \in requestIds THEN Claimed ELSE gw[id]]
             /\ api' = [api EXCEPT
                    !.requests = [i \in 1..Len(@) |->
                        IF @[i].requestId \in requestIds
                        THEN [@[i] EXCEPT !.status = "claimed", !.claimedAt = now]
                        ELSE @[i]],
                    !.marked = @ \cup {api.requests[i].requestId : i \in
                                    {j \in 1..Len(api.requests) :
                                        api.requests[j].requestId \in requestIds}}]
          \/ /\ \E id \in requestIds : gw[id] # Finalized
             /\ UNCHANGED <<api, gw>>
    /\ UNCHANGED <<config, pool, chain, dash, other, loop, now, file, nextRequestId, pc, tickOk,
                   priceRatio, ethBalance, stethBalance, updatedState, startState, readyIds,
                   decision, tickTx, claimTxs, pass, prevPass, gwSame>>

(* GET /api/status up to the awaited status query: the store is loaded and, when
   it has entries, the queue is asked about all of them.  The queue answers with
   its state or with anything else. *)
ApiStatusQuery ==
    /\ api.pc = "idle"
    /\ api.requests # <<>>
    /\ \E answers \in Answers :
          api' = [api EXCEPT !.pc = "refresh", !.snapshot = api.requests,
                             !.answers = answers, !.truthful = (answers = gw)]
    /\ UNCHANGED <<config, pool, chain, dash, other, loop, now, file, gw, nextRequestId, pc, tickOk,
                   priceRatio, ethBalance, stethBalance, updatedState, startState, readyIds,
                   decision, tickTx, claimTxs, pass, prevPass, gwSame>>

(* GET /api/status after the status query: the statuses of the loaded store are
   replaced, and the store is saved when one of them has changed *)
ApiStatusSave ==
    /\ api.pc = "refresh"
    /\ LET store == refreshed(api.snapshot, api.answers)
           changed == \E i \in 1..Len(store) : store[i].status # api.snapshot[i].status
       IN api' = [api EXCEPT !.pc = "idle",
                             !.requests = IF changed THEN store ELSE @]
    /\ UNCHANGED <<config, pool, chain, dash, other, loop, now, file, gw, nextRequestId, pc, tickOk,
                   priceRatio, ethBalance, stethBalance, updatedState, startState, readyIds,
                   decision, tickTx, claimTxs, pass, prevPass, gwSame>>

(* The API server with a fresh queue; the bot is not running *)
InitApi ==
    /\ InitCommon
    /\ config = TrackerConfig
    /\ pool = Pool
    /\ dash = NoDash
    /\ other = NoOther
    /\ chain = Balances
    /\ api = [NoApi EXCEPT !.pc = "idle"]
    /\ now = 0
    /\ nextRequestId = 1

NextApi ==
    \/ ApiWithdrawRequest
    \/ ApiFinalize
    \/ ApiClaim
    \/ ApiStatusQuery
    \/ ApiStatusSave

SpecApi == InitApi /\ [][NextApi]_vars

----------------------------------------------------------------------------
TypeOK ==
    /\ pc \in {"idle", "balances", "track", "claim", "decide", "stake", "withdraw", "sleep",
              "record", "lastAction", "crashed"}
    /\ now \in Times

----------------------------------------------------------------------------
(* Vocabulary of the properties *)

Decided == decision.action # "undecided"
LastAtTickStart == startState.lastAction
ElapsedAtDecision == decision.now - LastAtTickStart.timestamp
cooldownDuration == config.cooldownMinutes * 60 * 1000
minHoldDuration == config.minHoldHours * 60 * 60 * 1000
DiscountSignal == discountPctOf(priceRatio) > config.thresholdPct
PremiumSignal == premiumPctOf(priceRatio) > config.thresholdPct
InCooldownAtDecision ==
    LastAtTickStart # NoAction /\ ElapsedAtDecision < cooldownDuration
HoldAtDecision == ElapsedAtDecision >= minHoldDuration
PersistedCounters == loadState(file).consecutive
ConfirmedDiscount == PersistedCounters.discount >= config.confirmationChecks
ConfirmedPremium == PersistedCounters.premium >= config.confirmationChecks

(* C1.  Cooldown: a tick whose decision is taken while a LastAction exists and
   less than the cooldown has elapsed since it decides none, cooldown_active, and
   submits no stake and no withdrawal request, whatever the percentages and the
   counters are. *)
C1_Cooldown ==
    (Decided /\ InCooldownAtDecision) =>
        /\ decision.action = "none"
        /\ decision.reason = "cooldown_active"
        /\ tickTx = NoTx

(* a tick in cooldown that has a signal confirmed often enough to flip *)
C1_Witness ==
    /\ Decided
    /\ InCooldownAtDecision
    /\ LastAtTickStart.type = "stake"
    /\ PremiumSignal /\ ~DiscountSignal
    /\ ConfirmedPremium
    /\ decision.reason = "cooldown_active"

(* C2.  Flip gate, necessity: when the decided action is the opposite of the
   persisted LastAction, then at decision time the minimum hold has elapsed or the
   counter of the new direction, as updated in this tick, has reached
   confirmationChecks. *)
C2_FlipNecessity ==
    /\ (decision.action = "stake" /\ LastAtTickStart.type = "withdraw") =>
            (HoldAtDecision \/ ConfirmedDiscount)
    /\ (decision.action = "withdraw" /\ LastAtTickStart.type = "stake") =>
            (HoldAtDecision \/ ConfirmedPremium)

(* a stake decided after a withdraw before the minimum hold has elapsed *)
C2_Witness ==
    /\ decision.action = "stake"
    /\ LastAtTickStart.type = "withdraw"
    /\ ~HoldAtDecision
    /\ ConfirmedDiscount

(* C3 as stated.  Outside cooldown, with a signal for the direction opposite to
   LastAction, the opposite action is decided as soon as one of the two conditions
   holds alone. *)
C3_FlipEitherAsStated ==
    /\ (Decided /\ ~InCooldownAtDecision /\ LastAtTickStart.type = "withdraw"
          /\ DiscountSignal /\ (HoldAtDecision # ConfirmedDiscount)) =>
            decision.action = "stake"
    /\ (Decided /\ ~InCooldownAtDecision /\ LastAtTickStart.type = "stake"
          /\ PremiumSignal /\ (HoldAtDecision # ConfirmedPremium)) =>
            decision.action = "withdraw"

(* C3, amended.  The same, where a withdraw after a stake is decided only when
   the discount does not exceed the threshold as well: a discount signal is
   served first. *)
C3_FlipEither ==
    /\ (Decided /\ ~InCooldownAtDecision /\ LastAtTickStart.type = "withdraw"
          /\ DiscountSignal /\ (HoldAtDecision # ConfirmedDiscount)) =>
            decision.action = "stake"
    /\ (Decided /\ ~InCooldownAtDecision /\ LastAtTickStart.type = "stake"
          /\ PremiumSignal /\ ~DiscountSignal /\ (HoldAtDecision # ConfirmedPremium)) =>
            decision.action = "withdraw"

(* a withdraw decided after a stake on the elapsed hold alone *)
C3_Witness ==
    /\ decision.action = "withdraw"
    /\ LastAtTickStart.type = "stake"
    /\ ~InCooldownAtDecision
    /\ HoldAtDecision
    /\ ~ConfirmedPremium

(* C4.  Signal priority: a tick whose discount exceeds the threshold never
   decides withdraw; when both percentages exceed it and neither the cooldown nor
   the flip gate blocks, the decision is stake. *)
C4_DiscountFirst ==
    /\ (Decided /\ DiscountSignal) => decision.action # "withdraw"
    /\ (Decided /\ DiscountSignal /\ PremiumSignal /\ ~InCooldownAtDecision
          /\ (LastAtTickStart.type = "withdraw" => (HoldAtDecision \/ ConfirmedDiscount)))
            => decision.action = "stake"

(* both percentages exceed the threshold, after a stake, and stake is decided *)
C4_Witness ==
    /\ DiscountSignal /\ PremiumSignal
    /\ LastAtTickStart.type = "stake"
    /\ ConfirmedPremium
    /\ decision.action = "stake"

(* a finished tick whose price and balance reads both succeeded *)
UpdateDone ==
    \/ pc \in {"track", "claim", "decide", "stake", "withdraw"}
    \/ pc = "sleep" /\ ethBalance \in EthBalances

CounterRule ==
    /\ PersistedCounters.discount =
          IF DiscountSignal THEN startState.consecutive.discount + 1 ELSE 0
    /\ PersistedCounters.premium =
          IF PremiumSignal THEN startState.consecutive.premium + 1 ELSE 0

(* C5 as stated.  After each tick, each persisted counter is the previous value
   plus one if the tick's percentage exceeds the threshold and 0 otherwise. *)
C5_CounterRuleAsStated ==
    (pc = "sleep" /\ priceRatio \in Ratios) => CounterRule

(* C5, amended.  The rule holds after each tick whose price and balance reads
   both succeeded, from the save of the counters on; a tick that fails at one of
   the reads leaves both counters as they were. *)
C5_CounterRule ==
    /\ UpdateDone => CounterRule
    /\ (pc = "sleep" /\ ~UpdateDone) => PersistedCounters = startState.consecutive

(* a counter beyond 1 is incremented while the other one is reset from a
   nonzero value, in a tick that decides none *)
C5_Witness ==
    /\ pc = "sleep"
    /\ UpdateDone
    /\ startState.consecutive.discount >= 1
    /\ PersistedCounters.discount = startState.consecutive.discount + 1
    /\ decision.action = "none"

----------------------------------------------------------------------------
(* Vocabulary of the tracker properties *)

Ledger == loadState(file).requests
ReadyInLedger == {Ledger[i].requestId : i \in {j \in 1..Len(Ledger) : Ledger[j].status = "ready"}}
ClaimedInLedger ==
    {Ledger[i].requestId : i \in {j \in 1..Len(Ledger) : Ledger[j].status = "claimed"}}
InSomeClaim(id) == \E k \in 1..Len(claimTxs) : id \in claimTxs[k]

(* the status query of this tick has been answered and the ledger marked; the
   claim transaction, if one was sent, is still in flight.  gw is what the query
   returned. *)
AfterQuery ==
    /\ pass.ran /\ ~pass.queryFailed
    /\ \/ pc = "claim"
       \/ pc = "decide" /\ ~pass.claimSent

(* the entries of the snapshot the tracker was called with that it asks about *)
Asked == {i \in 1..Len(updatedState.requests) :
            updatedState.requests[i].status \in {"pending", "ready"}}
ReportedReady == {updatedState.requests[i].requestId : i \in
                    {j \in Asked : gw[updatedState.requests[j].requestId] = Finalized}}

(* C6.  Once a ledger entry is claimed in a persisted state, it is claimed in
   every later persisted state: no step takes a claimed entry to another status. *)
C6_ClaimedStays ==
    [][\A i \in 1..Len(Ledger) :
         Ledger[i].status = "claimed" =>
            /\ i <= Len(Ledger')
            /\ Ledger'[i].requestId = Ledger[i].requestId
            /\ Ledger'[i].status = "claimed"]_vars

(* a later pass promotes another entry while a claimed entry is in the ledger *)
C6_Witness ==
    /\ pc = "claim"
    /\ ClaimedInLedger # {}
    /\ ReadyInLedger # {}

(* C7 as stated.  Of two tracker passes in a row against unchanged gateway
   answers, the second changes no ledger status and submits no claim. *)
C7_IdempotentAsStated ==
    (pass.ran /\ pass.same /\ prevPass.ran /\ ~prevPass.queryFailed) =>
        (~pass.changed /\ ~pass.claimSent)

(* C7, amended.  The same, when the first pass completed without a failure: its
   status query was answered and its claim transaction, if any, confirmed. *)
C7_Idempotent ==
    (pass.ran /\ pass.same /\ prevPass.ran /\ prevPass.ok) =>
        (~pass.changed /\ ~pass.claimSent)

(* a second pass that asks about an outstanding entry, after a pass that
   completed, with a claimed entry in the ledger and unchanged answers *)
C7_Witness ==
    /\ pass.ran /\ pass.same /\ prevPass.ok
    /\ ~pass.queryFailed
    /\ Asked # {}
    /\ ClaimedInLedger # {}
    /\ pc = "decide"

(* C8.  Per-entry reconciliation: of the entries a pass asks about, a pending one
   reported finalized and not claimed is marked ready and is in the claim
   transaction; one reported neither finalized nor claimed keeps its status and
   is in no claim transaction. *)
C8_PerEntry ==
    AfterQuery =>
        \A i \in Asked :
            LET entry == updatedState.requests[i]
            IN /\ (entry.status = "pending" /\ gw[entry.requestId] = Finalized) =>
                    /\ Ledger[i].status = "ready"
                    /\ pc = "claim"
                    /\ entry.requestId \in claimTxs[Len(claimTxs)]
               /\ gw[entry.requestId] = NoStatus =>
                    /\ Ledger[i].status = entry.status
                    /\ ~InSomeClaim(entry.requestId)

(* two pending entries, one reported finalized and the other not *)
C8_Witness ==
    /\ pc = "claim"
    /\ \E i, j \in Asked :
          /\ updatedState.requests[i].status = "pending"
          /\ updatedState.requests[j].status = "pending"
          /\ gw[updatedState.requests[i].requestId] = Finalized
          /\ gw[updatedState.requests[j].requestId] = NoStatus

(* C9 as stated.  If a ledger entry is ready after the reconciliation, exactly
   one claim transaction is submitted and covers every ready ledger entry; on
   confirmation all of them are claimed. *)
C9_BatchedClaimAsStated ==
    /\ (AfterQuery /\ ReadyInLedger # {}) =>
            /\ Len(claimTxs) = 1
            /\ ReadyInLedger \subseteq claimTxs[1]
    /\ (pass.claimSent /\ pass.ok) => claimTxs[1] \subseteq ClaimedInLedger

(* C9, amended.  If the status query reports at least one entry finalized and
   not claimed, exactly one claim transaction is submitted; it covers exactly the
   entries so reported, all of which are ready in the ledger at that point, and on
   confirmation all of them are claimed.  Otherwise no claim transaction is
   submitted, also when the ledger holds a ready entry. *)
C9_BatchedClaim ==
    /\ Len(claimTxs) <= 1
    /\ AfterQuery =>
            IF ReportedReady # {}
            THEN /\ pc = "claim"
                 /\ claimTxs = <<ReportedReady>>
                 /\ ReportedReady \subseteq ReadyInLedger
            ELSE claimTxs = <<>>
    /\ (pass.claimSent /\ pass.ok) => claimTxs[1] \subseteq ClaimedInLedger

(* one confirmed claim transaction has claimed two entries *)
C9_Witness ==
    /\ pass.claimSent /\ pass.ok
    /\ Cardinality(claimTxs[1]) = 2
    /\ claimTxs[1] \subseteq ClaimedInLedger

ClaimFailed == pc = "sleep" /\ pass.claimSent /\ ~pass.ok

(* C10 as stated.  After a failed claim the entries are persisted as ready, and
   the next pass sends a claim that includes them. *)
C10_ClaimRetryAsStated ==
    /\ ClaimFailed => readyIds \subseteq ReadyInLedger
    /\ (AfterQuery /\ prevPass.failed # {}) =>
            /\ pc = "claim"
            /\ prevPass.failed \subseteq claimTxs[1]

(* C10, amended.  After a failed claim the entries are persisted as ready.  The
   next pass whose status query is answered derives their readiness again: those
   still reported finalized and not claimed are in its claim transaction, those
   reported claimed are marked claimed and those reported not finalized stay
   ready, both outside any claim transaction. *)
C10_ClaimRetry ==
    /\ ClaimFailed => readyIds \subseteq ReadyInLedger
    /\ AfterQuery =>
          \A id \in prevPass.failed :
              /\ gw[id] = Finalized => (pc = "claim" /\ id \in claimTxs[1])
              /\ gw[id] = Claimed => (id \in ClaimedInLedger /\ ~InSomeClaim(id))
              /\ gw[id] = NoStatus => (id \in ReadyInLedger /\ ~InSomeClaim(id))

(* the pass after a failed claim sends a claim with the same entries *)
C10_Witness ==
    /\ pc = "claim"
    /\ prevPass.failed # {}
    /\ prevPass.failed \subseteq claimTxs[1]

----------------------------------------------------------------------------
(* the status query of this tick failed; the pass record lasts until the sleep ends *)
QueryFailed == pass.ran /\ pass.queryFailed

(* C11.  Status-query failure: when the batch status query fails, the tick ends
   there with the failure handed to the control loop; the ledger statuses are those
   of the tick's start, and the tick has sent no claim transaction, made no
   decision and sent no stake or withdrawal-request transaction. *)
C11_QueryFailureAborts ==
    QueryFailed =>
        /\ pc = "sleep" /\ ~tickOk
        /\ Ledger = startState.requests
        /\ claimTxs = <<>>
        /\ decision = NoDecision
        /\ tickTx = NoTx

(* the query fails in a tick that has a finalized entry to claim and a discount
   with funds to stake *)
C11_Witness ==
    /\ QueryFailed
    /\ \E i \in Asked : gw[updatedState.requests[i].requestId] = Finalized
    /\ DiscountSignal
    /\ spendableOf(ethBalance) >= minTradeEth

----------------------------------------------------------------------------
InLedger(id) == \E i \in 1..Len(Ledger) : Ledger[i].requestId = id

(* C12.  Lifecycle liveness: a ledger entry that the queue reports finalized from
   some point on is eventually claimed in the ledger, when the loop keeps ticking
   and the calls to the chain eventually succeed. *)
C12_EventuallyClaimed ==
    \A id \in Ids :
        <>[](InLedger(id) /\ gw[id].isFinalized) => <>(id \in ClaimedInLedger)

(* the entries of a failed claim are claimed by the claim transaction of the next
   pass *)
C12_Witness ==
    /\ prevPass.failed # {}
    /\ pass.claimSent /\ pass.ok
    /\ prevPass.failed \subseteq ClaimedInLedger

----------------------------------------------------------------------------
(* Vocabulary of the execution properties *)

LastAction == loadState(file).lastAction
SkippedStake ==
    decision.action = "stake" /\ Max(0, ethBalance - safetyBufferEth) < minTradeEth
SkippedWithdraw ==
    decision.action = "withdraw" /\ stethBalance < minTradeSteth

(* C13.  Skipped action: the step that decides stake with
   max(0, ethBalance - safetyBuffer) < minTradeEth, or withdraw with a staked
   balance < minTradeSteth, ends the tick and writes nothing; at the end of such a
   tick no transaction was submitted, LastAction is the one of the tick's start
   and the ledger has gained no entry. *)
C13_SkipNoEffect ==
    /\ []((pc = "sleep" /\ (SkippedStake \/ SkippedWithdraw)) =>
            /\ tickTx = NoTx
            /\ LastAction = startState.lastAction
            /\ Len(Ledger) = Len(startState.requests))
    /\ [][(pc = "decide" /\ (SkippedStake \/ SkippedWithdraw)') =>
            (file' = file /\ tickTx' = NoTx /\ pc' = "sleep")]_vars

(* a stake or a withdraw skipped with a positive amount below the minimum, after an
   earlier action *)
C13_Witness ==
    /\ pc = "sleep" /\ tickOk
    /\ startState.lastAction # NoAction
    /\ \/ SkippedStake /\ ethBalance > safetyBufferEth
       \/ SkippedWithdraw /\ stethBalance > 0

(* C14.  Stake amount: every stake transaction submitted is for exactly
   ethBalance - safetyBuffer of the balance read in the tick, an amount that is at
   least minTradeEth and leaves the safety buffer in the balance. *)
C14_StakeAmount ==
    tickTx.kind = "stake" =>
        /\ tickTx.amount = ethBalance - safetyBufferEth
        /\ tickTx.amount >= minTradeEth
        /\ ethBalance - tickTx.amount >= safetyBufferEth

(* a confirmed stake with a safety buffer configured *)
C14_Witness ==
    /\ pc = "sleep" /\ tickOk
    /\ tickTx.kind = "stake"
    /\ safetyBufferEth > 0
    /\ LastAction.type = "stake"

ConfirmedWithdraw == pc = "sleep" /\ tickOk /\ tickTx.kind = "withdraw"

(* C15.  Executed withdraw: when the withdrawal-request transaction has confirmed,
   it requested the whole staked balance read in the tick in one request, the
   ledger has gained one pending entry for each request id the queue assigned to
   the mined request, and LastAction is withdraw at the present time. *)
C15_ExecutedWithdraw ==
    ConfirmedWithdraw =>
        /\ tickTx.amount = stethBalance
        /\ Len(tickTx.mined) = 1
        /\ Len(Ledger) = Len(startState.requests) + Len(tickTx.mined)
        /\ \A i \in 1..Len(startState.requests) :
              Ledger[i].requestId = startState.requests[i].requestId
        /\ \A k \in 1..Len(tickTx.mined) :
              Ledger[Len(startState.requests) + k] =
                  [requestId |-> tickTx.mined[k], amountSteth |-> stethBalance,
                   status |-> "pending",
                   txHash |-> txHashOf("requestWithdrawals", stethBalance),
                   createdAt |-> now, claimedAt |-> NoTime]
        /\ LastAction = [type |-> "withdraw", timestamp |-> now]

(* the step in which a stake, withdrawal-request or claim transaction fails *)
TxFails ==
    /\ pc \in {"stake", "withdraw", "claim"}
    /\ pc' = "sleep" /\ ~tickOk'

(* C16.  Failed transaction: the step in which a stake, withdrawal-request or
   claim transaction fails ends the tick (nothing is tried again in it) and leaves
   LastAction as it was, adds no ledger entry and marks no entry claimed; the
   sleep that follows leaves the state file to the next tick as it is. *)
C16_FailedNotRecorded ==
    /\ [][TxFails =>
            /\ LastAction' = LastAction
            /\ Len(Ledger') = Len(Ledger)
            /\ ClaimedInLedger' = ClaimedInLedger]_vars
    /\ [][pc = "sleep" => file' = file]_vars
    /\ [](Len(claimTxs) <= 1)

(* a withdrawal request fails in a tick whose claim transaction had confirmed *)
C16_Witness ==
    /\ pc = "sleep" /\ ~tickOk
    /\ tickTx.kind = "withdraw"
    /\ pass.claimSent /\ pass.ok

(* the decided action has nothing to spend, or less than the minimum trade size *)
Unfundable ==
    \/ /\ decision.action = "stake"
       /\ \/ Max(0, ethBalance - safetyBufferEth) = 0
          \/ Max(0, ethBalance - safetyBufferEth) < minTradeEth
    \/ /\ decision.action = "withdraw"
       /\ \/ stethBalance = 0
          \/ stethBalance < minTradeSteth

(* C17.  Insufficient balance is a guard outcome: for every balance, safety buffer
   and minimum trade size, a tick that decides a stake or a withdraw it cannot fund
   ends as skipped: no transaction, and no failure handed to the control loop. *)
C17_InsufficientIsSkip ==
    (pc = "sleep" /\ Unfundable) => (tickOk /\ tickTx = NoTx)

----------------------------------------------------------------------------
(* C18.  The control loop does not stop on its own: a failure at any step of a
   tick takes the loop to its sleep, every sleep, after a successful or a failed
   tick, is followed by the start of another iteration, and every iteration
   starts a tick. *)
C18_LoopGoesOn ==
    /\ [][~tickOk' /\ tickOk => pc' = "sleep"]_vars
    /\ (pc = "sleep" /\ ~tickOk) ~> (pc = "idle")
    /\ (pc = "sleep" /\ tickOk) ~> (pc = "idle")
    /\ (pc = "idle") ~> (pc # "idle")

(* a tick is under way after a tick that failed at the status query *)
C18_Witness ==
    /\ pc = "track"
    /\ ~tickOk
    /\ prevPass.ran /\ prevPass.queryFailed

(* C19.  Backoff schedule: the sleep after the n-th failed tick in a row is
   min(300000, 5000 * 2^(n-1)) ms, between 5000 and 300000 ms; the sleep after a
   successful tick is max(1000, loopSeconds * 1000) ms and the backoff is then
   back at 5000 ms, so that the next failure sleeps 5000 ms. *)
C19_Backoff ==
    /\ loop.failures > 0 =>
            /\ loop.sleepMs = Min(300000, 5000 * 2^(loop.failures - 1))
            /\ loop.sleepMs >= 5000 /\ loop.sleepMs <= 300000
    /\ (loop.failures = 0 /\ loop # NoLoop) =>
            /\ loop.sleepMs = Max(1000, config.loopSeconds * 1000)
            /\ loop.backoffMs = 5000

(* a tick fails at the status query after an earlier tick had staked: the first
   failure in a row is followed by a sleep of 5000 ms *)
C19_Witness ==
    /\ loop.failures = 1
    /\ loop.sleepMs = 5000
    /\ prevPass.ran /\ prevPass.queryFailed
    /\ LastAction.type = "stake"

----------------------------------------------------------------------------
(* C20.  State load never fails: in a tick whose balance reads succeeded, with no
   state file, an empty one or one whose content cannot be read, the load gives
   the default state (zero counters, empty ledger, no last action), from which the
   counters are updated, and the tick goes on to the tracker. *)
C20_LoadNeverFails ==
    [][(pc = "balances" /\ file \in StartFiles /\ ethBalance' \in chain.eth) =>
            /\ pc' = "track"
            /\ updatedState' = updateConsecutive(DefaultState, discountPctOf(priceRatio),
                                                 premiumPctOf(priceRatio))]_vars

(* the fields of a ledger entry that are written once *)
Identity(entry) ==
    [requestId |-> entry.requestId, amountSteth |-> entry.amountSteth,
     txHash |-> entry.txHash, createdAt |-> entry.createdAt]

(* C21.  Append-only ledger: no step of the runner (the counter save, addRequests,
   markRequests, the LastAction update) removes a ledger entry, reorders the
   entries or changes the requestId, amountSteth, txHash or createdAt of an entry:
   the persisted ledger after the step has the entries of the ledger before it at
   the same positions, with at most their status and claimedAt changed. *)
C21_AppendOnly ==
    [][/\ Len(Ledger') >= Len(Ledger)
       /\ \A i \in 1..Len(Ledger) : Identity(Ledger'[i]) = Identity(Ledger[i])]_vars

(* a second entry has been appended after the first one was claimed, later than it
   was created, and LastAction and the counters have been written since *)
C21_Witness ==
    /\ Len(Ledger) = 2
    /\ Ledger[1].status = "claimed"
    /\ Ledger[1].claimedAt > Ledger[1].createdAt
    /\ Ledger[2].createdAt > Ledger[1].createdAt
    /\ Ledger[2].requestId # Ledger[1].requestId
    /\ LastAction.timestamp = Ledger[2].createdAt
    /\ PersistedCounters.premium > 0

(* C22.  No prior action means no gating: a decision taken while no LastAction is
   persisted is stake exactly when discountPct exceeds the threshold, withdraw
   exactly when premiumPct exceeds it and discountPct does not, and none
   otherwise, whatever the counters, the cooldown and the minimum hold are. *)
C22_NoPriorAction ==
    (Decided /\ LastAtTickStart = NoAction) =>
        /\ decision.action = "stake" <=> DiscountSignal
        /\ decision.action = "withdraw" <=> (PremiumSignal /\ ~DiscountSignal)
        /\ decision.action = "none" <=> (~DiscountSignal /\ ~PremiumSignal)

(* a first withdraw decided with a cooldown configured, before the minimum hold
   could have passed and with fewer premium checks than the confirmations ask for *)
C22_Witness ==
    /\ Decided
    /\ LastAtTickStart = NoAction
    /\ decision.action = "withdraw"
    /\ cooldownDuration > 0
    /\ decision.now < minHoldDuration
    /\ updatedState.consecutive.premium < config.confirmationChecks

(* the pool's tokens are the configured pair, the staked asset first or second *)
StakedFirst ==
    /\ pool.token0.id = pool.stethAddress.id
    /\ pool.token1.id = pool.wethAddress.id
BaseFirst ==
    /\ pool.token0.id = pool.wethAddress.id
    /\ pool.token1.id = pool.stethAddress.id
PriceRead == pc = "idle" /\ pc' = "balances"
PriceReadFails == pc = "idle" /\ pc' = "sleep"
(* the prices of token1 in token0 the pool can report, in thousandths *)
PoolPrices == {(sqrtPriceX96 * sqrtPriceX96) \div 1000 : sqrtPriceX96 \in pool.slot0}

(* C23.  Oracle pair check: the price read fails when the two tokens the pool
   reports are not the configured staked and base assets in one of the two orders;
   a price read that returns yields the pool's price itself when the staked asset
   is the pool's first token and its inverse otherwise; and a tick in which the
   price read fails leaves the persisted state as it was. *)
C23_OraclePair ==
    [][/\ PriceRead => (StakedFirst \/ BaseFirst)
       /\ (PriceRead /\ StakedFirst) => priceRatio' \in PoolPrices
       /\ (PriceRead /\ ~StakedFirst) =>
              \E price \in PoolPrices \ {0} : priceRatio' = (1000 * 1000) \div price
       /\ PriceReadFails => (file' = file /\ tickOk' = FALSE)]_vars

(* a price read has failed in a tick that began with an entry in the ledger, with a
   pool whose first token is the base asset, reported in another letter case than
   the configured one: the withdraw that made the entry followed a premium, which
   is the inverse of the pool's price *)
C23_Witness ==
    /\ pc = "sleep"
    /\ ~tickOk
    /\ priceRatio = 0
    /\ BaseFirst
    /\ pool.token1.checksum # pool.stethAddress.checksum
    /\ Len(Ledger) = 1

(* C24.  Dashboard hurdle: the hurdle computed for a query is
   aprPct * waitingTimeDays / 365 + riskPremiumPct when the waiting-time cost is
   included and exactly riskPremiumPct when it is not; the value signal computed
   from it is discountPct - hurdlePct. *)
C24_Hurdle ==
    /\ dash.step \in {"hurdle", "signal"} =>
          IF dash.includeWaitingTimeCost
          THEN REq(dash.hurdlePct,
                   RAdd(RDiv(RMul(dash.aprPct, dash.waitingTimeDays), Whole(365)),
                        dash.riskPremiumPct))
          ELSE dash.hurdlePct = dash.riskPremiumPct
    /\ dash.step = "signal" =>
          REq(RAdd(dash.valueSignal, dash.hurdlePct), dash.discountPct)

(* the value signal has been computed for APR 4, a wait of 14 days and a risk
   premium of 2 that are not added up because the waiting-time cost is switched
   off: the hurdle is 2 and the signal of a discount of 1.2 is negative *)
C24_Witness ==
    /\ dash.step = "signal"
    /\ ~dash.includeWaitingTimeCost
    /\ dash.aprPct = Whole(4)
    /\ dash.waitingTimeDays = Whole(14)
    /\ dash.hurdlePct = Whole(2)
    /\ dash.discountPct = Rat(12, 10)
    /\ dash.valueSignal[1] < 0

(* the state the decision of the tick is due to be taken on: what was persisted
   when the tick started, with the counters as persisted now *)
StateWithPersistedCounters == [startState EXCEPT !.consecutive = PersistedCounters]

(* C25.  Order within a tick: the counters are updated and persisted before the
   tracker runs; the tracker queries the statuses before it claims, and has
   finished before the decision is taken; the decision is taken on the counters
   updated in this tick; a stake or withdrawal request is submitted only after the
   decision and is what was decided; and LastAction is persisted only once that
   transaction has confirmed. *)
C25_TickOrder ==
    /\ (pc \in {"track", "claim", "decide", "stake", "withdraw"} \/ pass.ran) =>
          CounterRule
    /\ pc \in {"track", "claim"} => (~Decided /\ tickTx = NoTx)
    /\ pc = "claim" => (pass.ran /\ ~pass.queryFailed /\ Len(claimTxs) = 1)
    /\ Len(claimTxs) > 0 => (pass.ran /\ ~pass.queryFailed)
    /\ Decided =>
          /\ pass.ran /\ pass.ok
          /\ decision.action =
                decideAction(StateWithPersistedCounters, discountPctOf(priceRatio),
                             premiumPctOf(priceRatio), decision.now).action
    /\ tickTx # NoTx => (Decided /\ tickTx.kind = decision.action)
    /\ (pc # "idle" /\ LastAction # LastAtTickStart) =>
          /\ pc = "sleep" /\ tickOk
          /\ tickTx # NoTx
          /\ LastAction.type = tickTx.kind

(* a tick has updated the counters, claimed a request, decided to stake on the
   counters it updated and recorded the confirmed stake *)
C25_Witness ==
    /\ pc = "sleep" /\ tickOk
    /\ pass.claimSent /\ pass.ok
    /\ PersistedCounters.discount = startState.consecutive.discount + 1
    /\ LastAtTickStart.type = "withdraw"
    /\ decision.action = "stake"
    /\ tickTx.kind = "stake"
    /\ LastAction = [type |-> "stake", timestamp |-> now]

(* C26.  Convergence on an already-claimed request: when the status query of a
   tracker pass has been answered, every pending or ready entry the pass asked
   about that the queue reports as claimed (claimed by someone else, or by a claim
   transaction of the runner whose outcome never reached the ledger) is claimed
   in the ledger, and is in no claim transaction of the pass. *)
C26_AlreadyClaimed ==
    AfterQuery =>
        \A i \in Asked :
            LET id == updatedState.requests[i].requestId
            IN gw[id].isClaimed => (id \in ClaimedInLedger /\ ~InSomeClaim(id))

(* a pass has marked claimed an entry that was ready in the ledger and that the
   queue reports as claimed, while it sends a claim for another entry *)
C26_Witness ==
    /\ AfterQuery
    /\ pc = "claim"
    /\ \E i \in Asked :
          /\ updatedState.requests[i].status = "ready"
          /\ gw[updatedState.requests[i].requestId] = Claimed
          /\ updatedState.requests[i].requestId \in ClaimedInLedger
          /\ updatedState.requests[i].requestId \notin readyIds

(* C27.  Request identity: when a withdrawal request has confirmed, the requestId
   of each entry the withdraw has recorded is the id the queue assigned to the
   request the mined transaction created, whatever requests of other users were
   mined between the dry run and the transaction. *)
C27_RequestIdentity ==
    ConfirmedWithdraw =>
        \A k \in 1..(Len(Ledger) - Len(startState.requests)) :
            /\ k <= Len(tickTx.mined)
            /\ Ledger[Len(startState.requests) + k].requestId = tickTx.mined[k]

(* a stake or a withdrawal request is submitted, a claim is submitted *)
SubmitsAction == pc' \in {"stake", "withdraw"} /\ pc' # pc
SubmitsClaim == pc' = "claim" /\ pc' # pc

(* C28.  One action per tick: a tick submits a stake or a withdrawal request only
   when it has submitted neither before, a claim only when it has submitted no
   claim before, and it changes LastAction only when LastAction is still what it
   was when the tick started. *)
C28_OneActionPerTick ==
    /\ [](Len(claimTxs) <= 1)
    /\ [][/\ SubmitsAction => (tickTx = NoTx /\ pc = "decide")
          /\ SubmitsClaim => claimTxs = <<>>
          /\ LastAction' # LastAction =>
                (LastAction = LastAtTickStart /\ pc' = "sleep")]_vars

(* a tick in which both percentages exceeded the threshold has claimed a request
   and staked, and has written LastAction *)
C28_Witness ==
    /\ pc = "sleep" /\ tickOk
    /\ DiscountSignal /\ PremiumSignal
    /\ Len(claimTxs) = 1
    /\ tickTx.kind = "stake"
    /\ LastAction # LastAtTickStart

(* what a step leaves of the persisted state as it was *)
KeepsCounters == PersistedCounters' = PersistedCounters
KeepsLastAction == LastAction' = LastAction
KeepsEntries(ids) ==
    \A i \in 1..Len(Ledger) : Ledger[i].requestId \in ids => Ledger'[i] = Ledger[i]

(* C29.  No lost write within a single instance: every write of a tick is made on
   what was persisted last, so it changes what it writes and nothing else.  The
   counter save leaves LastAction and the ledger as they are; the writes of the
   tracker leave the counters saved before and LastAction as they are, and the
   marking of the claimed requests leaves the entries the status query marked; the
   writes of the stake and of the withdraw leave the counters and every entry of
   the ledger, with its status, as they are. *)
C29_NoLostWrite ==
    [][/\ pc = "balances" => (KeepsLastAction /\ KeepsEntries(Ids))
       /\ pc = "track" => (KeepsCounters /\ KeepsLastAction)
       /\ pc = "claim" =>
              (KeepsCounters /\ KeepsLastAction /\ KeepsEntries(Ids \ readyIds))
       /\ pc \in {"stake", "withdraw"} => (KeepsCounters /\ KeepsEntries(Ids))
       /\ pc \in {"idle", "decide", "sleep"} => file' = file]_vars

(* a tick has saved counters, marked one entry claimed on the queue's report and
   another one ready, claimed that one and marked it, and the three writes are all
   in the file *)
C29_Witness ==
    /\ pc = "decide"
    /\ pass.claimSent /\ pass.ok
    /\ PersistedCounters # startState.consecutive
    /\ readyIds # {}
    /\ readyIds \subseteq ClaimedInLedger
    /\ \E i \in Asked :
          /\ updatedState.requests[i].requestId \notin readyIds
          /\ updatedState.requests[i].requestId \in ClaimedInLedger

(* the second instance saves *)
OtherSaves == other.pc = "loaded" /\ other'.pc = "done"

(* C30.  Two instances corrupt the state: the save of the second instance puts
   back the ledger and the LastAction it loaded, whatever the first instance has
   persisted since that load; an entry, a status change or a LastAction the first
   instance wrote in between is lost. *)
C30_TwoInstances ==
    [][OtherSaves =>
          /\ Ledger' = other.updatedState.requests
          /\ LastAction' = other.updatedState.lastAction]_vars

(* the first instance has recorded a withdrawal request and its LastAction, and the
   save of the second instance has removed both from the file *)
C30_Witness ==
    /\ other.pc = "done"
    /\ nextRequestId = MaxId + 1
    /\ Ledger = <<>>
    /\ LastAction = NoAction

(* the process has stopped in a tick whose withdrawal request had confirmed *)
StoppedAfterWithdraw ==
    pc = "crashed" /\ tickTx.kind = "withdraw" /\ tickTx.mined # <<>>
(* the state file holds an entry for the request of that tick *)
WithdrawRecorded == Len(Ledger) = Len(startState.requests) + Len(tickTx.mined)

(* C31.  Crash recovery of a withdraw: wherever in a tick the process stops, the
   snapshot it restarts from holds a ledger entry for the withdrawal request whose
   transaction confirmed in the tick, and LastAction is withdraw whenever that
   entry is in the ledger. *)
C31_CrashRecovery ==
    StoppedAfterWithdraw =>
        /\ WithdrawRecorded
        /\ LastAction.type = "withdraw"

(* C32.  With a threshold that is not negative, every state a tick has persisted
   has at most one of the two counters above zero. *)
C32_OneCounter ==
    (config.thresholdPct >= 0 /\ file # NoFile) =>
        ~(PersistedCounters.discount > 0 /\ PersistedCounters.premium > 0)

(* with the threshold at zero, a tick has counted a first premium and reset a
   discount counter that had reached the cap *)
C32_Witness ==
    /\ config.thresholdPct = 0
    /\ pc = "track"
    /\ startState.consecutive = [discount |-> MaxCount, premium |-> 0]
    /\ PersistedCounters = [discount |-> 0, premium |-> 1]

ShortHold == minHoldDuration <= cooldownDuration
WaitingConfirmation ==
    decision.reason \in {"stake_waiting_confirmation", "withdraw_waiting_confirmation"}

(* C33 as stated.  With a minimum hold no longer than the cooldown the flip gate
   never blocks: no decision waits for confirmation, and outside cooldown a tick
   with the signal opposite to LastAction decides the opposite action. *)
C33_GateNeverBlocksAsStated ==
    ShortHold =>
        /\ ~WaitingConfirmation
        /\ (Decided /\ ~InCooldownAtDecision /\ LastAtTickStart.type = "withdraw"
              /\ DiscountSignal) => decision.action = "stake"
        /\ (Decided /\ ~InCooldownAtDecision /\ LastAtTickStart.type = "stake"
              /\ PremiumSignal) => decision.action = "withdraw"

(* C33, amended.  The same, where a withdraw after a stake is decided only when
   the discount does not exceed the threshold as well. *)
C33_GateNeverBlocks ==
    ShortHold =>
        /\ ~WaitingConfirmation
        /\ (Decided /\ ~InCooldownAtDecision /\ LastAtTickStart.type = "withdraw"
              /\ DiscountSignal) => decision.action = "stake"
        /\ (Decided /\ ~InCooldownAtDecision /\ LastAtTickStart.type = "stake"
              /\ PremiumSignal /\ ~DiscountSignal) => decision.action = "withdraw"

(* the first tick after the cooldown decides a withdraw after a stake on a premium
   signal seen once *)
C33_Witness ==
    /\ ShortHold
    /\ LastAtTickStart.type = "stake"
    /\ ElapsedAtDecision = cooldownDuration
    /\ PremiumSignal /\ ~DiscountSignal
    /\ updatedState.consecutive.premium = 1
    /\ ~ConfirmedPremium
    /\ decision.action = "withdraw"

(* the tick has ended with an error after it had loaded the state *)
AbortedAfterLoad == pc = "sleep" /\ ~tickOk /\ UpdateDone

(* C34.  A tick that ends with an error leaves the persisted counters as they
   were when the tick loaded the state. *)
C34_AbortKeepsCounters ==
    AbortedAfterLoad => PersistedCounters = startState.consecutive

(* C35.  A tick whose claim transaction fails ends with the error, without a
   decision and without a stake or withdrawal-request transaction; a tick that
   decides or submits one has had every entry its status query reported ready
   claimed by a confirmed claim transaction. *)
C35_ClaimFailureBlocks ==
    /\ ClaimFailed => (~tickOk /\ decision = NoDecision /\ tickTx = NoTx)
    /\ (Decided \/ tickTx # NoTx) =>
            /\ pass.claimSent => pass.ok
            /\ readyIds \subseteq ClaimedInLedger

(* the claim fails for the second tick in a row, in a tick that has a discount and
   the funds to stake *)
C35_Witness ==
    /\ ClaimFailed
    /\ prevPass.failed # {}
    /\ DiscountSignal
    /\ spendableOf(ethBalance) >= minTradeEth

(* the entries that were ready when the tick loaded the state and that the status
   query reports as not finalized *)
ReadyNotFinalized ==
    {updatedState.requests[i].requestId : i \in
        {j \in Asked : /\ updatedState.requests[j].status = "ready"
                       /\ gw[updatedState.requests[j].requestId] = NoStatus}}

(* C36.  No step takes a ledger entry back to pending, and a ready entry stays
   ready or becomes claimed; after a status query that reports a ready entry as
   not finalized the entry is still ready and in no claim transaction of the tick. *)
C36_NeverBackToPending ==
    /\ [][\A i \in 1..Len(Ledger) :
            /\ i <= Len(Ledger')
            /\ Ledger[i].status # "pending" => Ledger'[i].status # "pending"
            /\ Ledger[i].status = "ready" => Ledger'[i].status \in {"ready", "claimed"}]_vars
    /\ [](AfterQuery =>
            \A id \in ReadyNotFinalized : id \in ReadyInLedger /\ ~InSomeClaim(id))

(* a ready entry is reported as not finalized in a tick that sends a claim
   transaction for another entry *)
C36_Witness ==
    /\ AfterQuery
    /\ pc = "claim"
    /\ ReadyNotFinalized # {}
    /\ ReadyNotFinalized \subseteq ReadyInLedger

(* the entries of the withdrawal store that the claim endpoint has marked and that
   are claimed *)
MarkedClaimed ==
    {i \in 1..Len(api.requests) :
        api.requests[i].status = "claimed" /\ api.requests[i].requestId \in api.marked}

(* C37.  An entry of the withdrawal store that the claim endpoint has marked
   claimed stays claimed in every later step. *)
C37_ApiClaimedStays ==
    [][\A i \in MarkedClaimed : api'.requests[i].status = "claimed"]_vars


====
